---- MODULE Spec2Model ----
(***************************************************************************)
(* Gradient bookkeeping of caffe2/python/core.py: the IR class (SSA        *)
(* versioning, gradient generators, accumulation) and the backward pass    *)
(* of GradientRegistry.                                                    *)
(*                                                                         *)
(* Blob names are strings.  A gradient is a tuple: << >> is None, <<n>>    *)
(* is the dense gradient blob n, <<i, v>> is GradientSlice(indices=i,      *)
(* values=v).  A gradient operator is referred to by its position in       *)
(* all_gradient_ops (0 stands for None), so that the in-place renaming of  *)
(* its outputs is seen by every holder of the reference.                   *)
(***************************************************************************)
EXTENDS Integers, Sequences, FiniteSets, TLC

VARIABLES
    catalog,              \* the operators a forward pass is drawn from
    ssa,                  \* IR.ssa: sequence of [op, in_versions, out_versions]
    input_usages,         \* IR.input_usages: <<blob, version>> -> op indices
    frontier,             \* IR.frontier: blob -> current version
    gradient_frontier,    \* IR.gradient_frontier: blob -> version
    gradient_generators,  \* IR.gradient_generators: <<blob, version>> -> generators
    ys,                   \* the targets of GetBackwardPass, in iteration order
    all_input_to_grad,    \* the running gradient map of GetBackwardPass
    all_gradient_ops,     \* the operator list of GetBackwardPass
    forward_op_idx,       \* loop variable of GetBackwardPass (1-based; 0: none)
    pc,                   \* "play" | "generate" | "accumulate" | "done" | "failed"
    error,                \* the exception that ended the pass, or NoError
    accumulations,        \* history: one record per accumulation synthesized
    op_origin,            \* history: for each operator of all_gradient_ops,
                          \* what emitted it and for which forward operator
    net,                  \* Net._net: the NetDef, [op, external_input]
    op_outputs,           \* Net._op_outputs
    external_input_map,   \* Net._external_input_map
    recreate_lookup_tables,  \* Net._recreate_lookup_tables
    registered_blob_names,   \* Net._registered_blob_names
    proto_held,           \* a caller holds the reference Net.Proto() returned
    next_blobs,           \* history: the names NextBlob has returned
    call,                 \* the last call on the net, a step or the plan,
                          \* and what the caller got: [fn, args, result];
                          \* the result of a call under way is "running"
    steps,                \* the ExecutionStep objects, by identity
    plan,                 \* Plan._plan: [execution_step, network]
    step_calls            \* how many calls were made on steps and the plan

ir_vars == << catalog, ssa, input_usages, frontier, gradient_frontier,
              gradient_generators, ys, all_input_to_grad, all_gradient_ops,
              forward_op_idx, pc, error, accumulations, op_origin >>
net_vars == << net, op_outputs, external_input_map, recreate_lookup_tables,
               registered_blob_names, proto_held, next_blobs >>
plan_vars == << steps, plan, step_calls >>
vars == << ir_vars, net_vars, plan_vars, call >>

\* Longest forward pass played.
MaxOps == 3

-----------------------------------------------------------------------------
(* Operator records and gradients *)

Op(type, input, output) == [type |-> type, input |-> input, output |-> output,
                            device_option |-> ""]

\* An operator with a device option.
OpOn(type, input, output, device) ==
    [type |-> type, input |-> input, output |-> output, device_option |-> device]

None == << >>
Dense(n) == << n >>
GradientSlice(i, v) == << i, v >>
IsSlice(g) == Len(g) = 2

Range(s) == { s[i] : i \in DOMAIN s }

\* defaultdict lookups
FrontierGet(f, s) == IF s \in DOMAIN f THEN f[s] ELSE 0
FrontierTouch(f, s) == IF s \in DOMAIN f THEN f ELSE f @@ (s :> 0)
ListGet(d, k) == IF k \in DOMAIN d THEN d[k] ELSE << >>
ListAppend(d, k, x) == IF k \in DOMAIN d THEN [d EXCEPT ![k] = Append(@, x)]
                       ELSE d @@ (k :> << x >>)

EmptyMap == [x \in {} |-> 0]

\* An exception: its kind, and what its message names.
NoError == [kind |-> "", about |-> << >>]
Raise(kind, about) == [kind |-> kind, about |-> about]

\* An entry of op_origin: kind is "init", "grad" or "sum".
Origin(kind, fwd_op_idx) == [kind |-> kind, fwd_op_idx |-> fwd_op_idx]

\* dict.update
Update(d, e) ==
    [k \in DOMAIN d \cup DOMAIN e |-> IF k \in DOMAIN e THEN e[k] ELSE d[k]]

The(S) == CHOOSE x \in S : TRUE

-----------------------------------------------------------------------------
(* IR.Play *)

RECURSIVE PlayInputsFrontier(_, _, _)
PlayInputsFrontier(f, input, k) ==
    IF k > Len(input) THEN f
    ELSE PlayInputsFrontier(FrontierTouch(f, input[k]), input, k + 1)

RECURSIVE PlayInputUsages(_, _, _, _, _)
PlayInputUsages(u, f, input, k, idx) ==
    IF k > Len(input) THEN u
    ELSE PlayInputUsages(
             ListAppend(u, << input[k], FrontierGet(f, input[k]) >>, idx),
             f, input, k + 1, idx)

\* Versions that count the writes: a newly created blob starts at one.
RECURSIVE PlayOutputsFrontier_FromOne(_, _, _)
PlayOutputsFrontier_FromOne(f, output, k) ==
    IF k > Len(output) THEN f
    ELSE LET s == output[k]
             f1 == IF s \in DOMAIN f THEN [f EXCEPT ![s] = @ + 1]
                   ELSE f @@ (s :> 1)
         IN  PlayOutputsFrontier_FromOne(f1, output, k + 1)

RECURSIVE PlayOutputsFrontier(_, _, _)
PlayOutputsFrontier(f, output, k) ==
    IF k > Len(output) THEN f
    ELSE LET s == output[k]
             f1 == IF s \in DOMAIN f THEN [f EXCEPT ![s] = @ + 1]
                   ELSE f @@ (s :> 0)
         IN  PlayOutputsFrontier(f1, output, k + 1)

\* A replay that records the versions of the outputs as they were before
\* the operator wrote them.
Play_OutputsBefore(op) ==
    /\ pc = "play"
    /\ Len(ssa) < MaxOps
    /\ LET f1 == PlayInputsFrontier(frontier, op.input, 1)
           f2 == PlayOutputsFrontier(f1, op.output, 1)
           in_versions == [s \in Range(op.input) |-> FrontierGet(frontier, s)]
           out_versions == [s \in Range(op.output) |-> FrontierGet(f1, s)]
       IN  /\ input_usages' =
                 PlayInputUsages(input_usages, frontier, op.input, 1, Len(ssa) + 1)
           /\ frontier' = f2
           /\ ssa' = Append(ssa, [op |-> op, in_versions |-> in_versions,
                                   out_versions |-> out_versions])
    /\ UNCHANGED << catalog, gradient_frontier, gradient_generators, ys,
                    all_input_to_grad, all_gradient_ops, forward_op_idx, pc,
                    error, accumulations, op_origin >>
    /\ UNCHANGED << net_vars, plan_vars, call >>

Play(op) ==
    /\ pc = "play"
    /\ Len(ssa) < MaxOps
    /\ LET f1 == PlayInputsFrontier(frontier, op.input, 1)
           f2 == PlayOutputsFrontier(f1, op.output, 1)
           in_versions == [s \in Range(op.input) |-> FrontierGet(frontier, s)]
           out_versions == [s \in Range(op.output) |-> f2[s]]
       IN  /\ input_usages' =
                 PlayInputUsages(input_usages, frontier, op.input, 1, Len(ssa) + 1)
           /\ frontier' = f2
           /\ ssa' = Append(ssa, [op |-> op, in_versions |-> in_versions,
                                   out_versions |-> out_versions])
    /\ UNCHANGED << catalog, gradient_frontier, gradient_generators, ys,
                    all_input_to_grad, all_gradient_ops, forward_op_idx, pc,
                    error, accumulations, op_origin >>
    /\ UNCHANGED << net_vars, plan_vars, call >>

-----------------------------------------------------------------------------
(* GetIndexFromGradientList: the first position (0-based) whose gradient   *)
(* is the dense name, or a slice with that indices or values name; -1      *)
(* stands for None.                                                        *)

GradMatches(g, name) ==
    \/ g = Dense(name)
    \/ IsSlice(g) /\ (g[1] = name \/ g[2] = name)

GetIndexFromGradientList(g_list, name) ==
    LET hits == { i \in DOMAIN g_list : GradMatches(g_list[i], name) }
    IN  IF hits = {} THEN -1
        ELSE (CHOOSE i \in hits : \A j \in hits : i <= j) - 1

-----------------------------------------------------------------------------
(* Gradient rules.  A rule answers [raised, shape, gradient_ops, g_input]: *)
(* raised is NoError or the exception, shape tells whether the rule        *)
(* returned a list of operators, one operator, or None.                    *)

RuleResult(shape, ops, g_input) ==
    [raised |-> NoError, shape |-> shape, gradient_ops |-> ops, g_input |-> g_input]
RuleRaise(kind, about) ==
    [raised |-> Raise(kind, about), shape |-> "list", gradient_ops |-> << >>,
     g_input |-> << >>]

GradOp(type, input, output, device) ==
    [type |-> type, input |-> input, output |-> output, device_option |-> device]

\* The names a rule gives the gradients of the inputs of op.
GIS(op) == [j \in DOMAIN op.input |-> op.input[j] \o "_grad"]
DenseAll(names) == [j \in DOMAIN names |-> Dense(names[j])]
NoneAll(op) == [j \in DOMAIN op.input |-> None]

\* A rule that hands every output gradient to its operator needs them all,
\* and CreateOperator (_RectifyInputOutput) takes blob names only.
AllDense(g_output) == \A i \in DOMAIN g_output : Len(g_output[i]) = 1
NeedAll(g_output) == [i \in DOMAIN g_output |-> g_output[i][1]]

\* The native rules: Sum hands the gradient of its output to every input,
\* Gather answers the sparse pair (its indices input, the output gradient),
\* Dual computes the gradients of its inputs from a dense output gradient.
NativeTypes == { "Sum", "Gather", "Dual" }

GetGradientForOpCC(op, g_output) ==
    IF op.type = "Sum" /\ Len(g_output) >= 1 /\ Len(g_output[1]) = 1
    THEN RuleResult("list", << >>, [j \in DOMAIN op.input |-> g_output[1]])
    ELSE IF op.type = "Gather" /\ Len(op.input) >= 2
            /\ Len(g_output) >= 1 /\ Len(g_output[1]) = 1
    THEN RuleResult("list", << >>,
             [j \in DOMAIN op.input |->
                 IF j = 1 THEN GradientSlice(op.input[2], g_output[1][1])
                 ELSE None])
    ELSE IF op.type = "Dual" /\ Len(g_output) >= 1 /\ Len(g_output[1]) = 1
    THEN RuleResult("list",
             << GradOp("DualGradient", << g_output[1][1] >>, GIS(op),
                       op.device_option) >>,
             DenseAll(GIS(op)))
    ELSE IF op.type \in NativeTypes
    THEN RuleRaise("GradientNotDense", << op.type >>)
    ELSE RuleRaise("NoNativeGradient", << op.type >>)

\* The rules registered with GradientRegistry.RegisterGradient.  Dual has a
\* native rule as well; its registered rule hands the gradient of the first
\* output, dense or sparse, to every input.
RegisteredTypes ==
    { "Direct", "UseOutput", "UseInput", "Nogradient", "Sparse", "UseScratch",
      "Chain", "Dual", "SparsePair", "SparseSwapped", "DirectAlt",
      "SparseAlt" }

ScratchBlob == "A_grad"

RegisteredGradient(op, g_output) ==
    IF op.type = "Nogradient"
    THEN RuleResult("list", << >>, NoneAll(op))
    ELSE IF op.type = "Dual"
    THEN IF Len(g_output) >= 1
         THEN RuleResult("none", << >>, [j \in DOMAIN op.input |-> g_output[1]])
         ELSE RuleRaise("RuleError", << op.type >>)
    ELSE IF ~AllDense(g_output) THEN RuleRaise("RuleError", << op.type >>)
    ELSE IF op.type = "Direct"
    THEN RuleResult("op",
             << GradOp("DirectGradient", NeedAll(g_output), GIS(op),
                       op.device_option) >>,
             DenseAll(GIS(op)))
    ELSE IF op.type = "DirectAlt"
    THEN \* a rule that names the gradients of the inputs in its own way.
         RuleResult("op",
             << GradOp("DirectAltGradient", NeedAll(g_output),
                       [j \in DOMAIN op.input |-> op.input[j] \o "_alt_grad"],
                       op.device_option) >>,
             [j \in DOMAIN op.input |-> Dense(op.input[j] \o "_alt_grad")])
    ELSE IF op.type = "SparseAlt"
    THEN \* the same for the sparse gradient of the first input.
         RuleResult("list",
             << GradOp("SparseAltGradient", NeedAll(g_output),
                       << op.input[1] \o "_alt_grad_indices",
                          op.input[1] \o "_alt_grad_values" >>,
                       op.device_option) >>,
             [j \in DOMAIN op.input |->
                 IF j = 1 THEN GradientSlice(op.input[1] \o "_alt_grad_indices",
                                             op.input[1] \o "_alt_grad_values")
                 ELSE None])
    ELSE IF op.type = "UseOutput"
    THEN RuleResult("op",
             << GradOp("UseOutputGradient", op.output \o NeedAll(g_output),
                       GIS(op), op.device_option) >>,
             DenseAll(GIS(op)))
    ELSE IF op.type = "UseInput"
    THEN RuleResult("op",
             << GradOp("UseInputGradient", op.input \o NeedAll(g_output),
                       GIS(op), op.device_option) >>,
             DenseAll(GIS(op)))
    ELSE IF op.type = "UseScratch"
    THEN RuleResult("op",
             << GradOp("UseScratchGradient",
                       << ScratchBlob >> \o NeedAll(g_output),
                       GIS(op), op.device_option) >>,
             DenseAll(GIS(op)))
    ELSE IF op.type = "Chain"
    THEN \* one operator per input; the first reads the output gradients,
         \* each next one the gradient the one before it has computed.
         RuleResult("list",
             [k \in DOMAIN op.input |->
                 GradOp("ChainGradient",
                        IF k = 1 THEN NeedAll(g_output)
                        ELSE << GIS(op)[k - 1] >>,
                        << GIS(op)[k] >>, op.device_option)],
             DenseAll(GIS(op)))
    ELSE IF op.type = "SparsePair"
    THEN \* one operator computes the indices of the sparse gradient of the
         \* first input, another one its values.
         RuleResult("list",
             << GradOp("SparseIndicesGradient", NeedAll(g_output),
                       << op.input[1] \o "_grad_indices" >>, op.device_option),
                GradOp("SparseValuesGradient", NeedAll(g_output),
                       << op.input[1] \o "_grad_values" >>, op.device_option) >>,
             [j \in DOMAIN op.input |->
                 IF j = 1 THEN GradientSlice(op.input[1] \o "_grad_indices",
                                             op.input[1] \o "_grad_values")
                 ELSE None])
    ELSE IF op.type = "SparseSwapped"
    THEN \* one operator whose first output is the values and whose second
         \* output is the indices.
         RuleResult("list",
             << GradOp("SparseSwappedGradient", NeedAll(g_output),
                       << op.input[1] \o "_grad_values",
                          op.input[1] \o "_grad_indices" >>,
                       op.device_option) >>,
             [j \in DOMAIN op.input |->
                 IF j = 1 THEN GradientSlice(op.input[1] \o "_grad_indices",
                                             op.input[1] \o "_grad_values")
                 ELSE None])
    ELSE \* "Sparse": one operator computes the indices and the values of
         \* the sparse gradient of the first input.
         RuleResult("list",
             << GradOp("SparseGradient", NeedAll(g_output),
                       << op.input[1] \o "_grad_indices",
                          op.input[1] \o "_grad_values" >>,
                       op.device_option) >>,
             [j \in DOMAIN op.input |->
                 IF j = 1 THEN GradientSlice(op.input[1] \o "_grad_indices",
                                             op.input[1] \o "_grad_values")
                 ELSE None])

\* A type without a rule taken as one without gradients.
GetGradientForOp_Swallowed(op, g_output) ==
    LET cc == GetGradientForOpCC(op, g_output)
        r  == IF cc.raised = NoError THEN cc
              ELSE IF op.type \in RegisteredTypes
                   THEN RegisteredGradient(op, g_output)
                   ELSE RuleResult("list", << >>, NoneAll(op))
    IN  IF r.raised # NoError THEN r
        ELSE IF r.shape = "none" THEN RuleResult("list", << >>, r.g_input)
        ELSE RuleResult("list", r.gradient_ops, r.g_input)

\* The registered rule consulted first, the native one only for a type that
\* has none registered.
GetGradientForOp_RegistryFirst(op, g_output) ==
    LET cc == GetGradientForOpCC(op, g_output)
        r  == IF op.type \in RegisteredTypes
              THEN RegisteredGradient(op, g_output)
              ELSE IF cc.raised = NoError THEN cc
              ELSE RuleRaise("NoGradientRegistered",
                             << op.type, cc.raised.kind >>)
    IN  IF r.raised # NoError THEN r
        ELSE IF r.shape = "none" THEN RuleResult("list", << >>, r.g_input)
        ELSE RuleResult("list", r.gradient_ops, r.g_input)

(* GradientRegistry.GetGradientForOp *)
GetGradientForOp(op, g_output) ==
    LET cc == GetGradientForOpCC(op, g_output)
        r  == IF cc.raised = NoError THEN cc
              ELSE IF op.type \in RegisteredTypes
                   THEN RegisteredGradient(op, g_output)
                   ELSE RuleRaise("NoGradientRegistered",
                                  << op.type, cc.raised.kind >>)
    IN  IF r.raised # NoError THEN r
        ELSE IF r.shape = "none" THEN RuleResult("list", << >>, r.g_input)
        ELSE RuleResult("list", r.gradient_ops, r.g_input)

-----------------------------------------------------------------------------
(* IR.CheckGradientOperatorInput: NoError when the input is legal, else the *)
(* exception.  fwd_op_idx is a position of ssa.                            *)

\* The check without the comparison of input versions.
CheckGradientOperatorInput_InputsUnversioned(grad_op_input, g_output, fwd_op_idx, locally_generated_blobs) ==
    LET forward_op     == ssa[fwd_op_idx].op
        in_versions    == ssa[fwd_op_idx].in_versions
        out_versions   == ssa[fwd_op_idx].out_versions
        original_index == GetIndexFromGradientList(g_output, grad_op_input)
        original_name  == forward_op.output[original_index + 1]
    IN  IF original_index # -1
        THEN IF original_name \notin DOMAIN gradient_frontier
             THEN Raise("KeyError", << original_name >>)
             ELSE IF out_versions[original_name] # gradient_frontier[original_name]
                  THEN Raise("GradientVersionMismatch",
                             << grad_op_input,
                                ToString(out_versions[original_name]),
                                original_name,
                                ToString(gradient_frontier[original_name]) >>)
                  ELSE NoError
        ELSE IF grad_op_input \in DOMAIN out_versions
        THEN IF FrontierGet(frontier, grad_op_input) # out_versions[grad_op_input]
             THEN Raise("OutputVersionMismatch",
                        << grad_op_input, ToString(out_versions[grad_op_input]),
                           ToString(FrontierGet(frontier, grad_op_input)) >>)
             ELSE NoError
        ELSE IF grad_op_input \in DOMAIN in_versions
        THEN IF FALSE
             THEN Raise("InputVersionMismatch",
                        << grad_op_input, ToString(in_versions[grad_op_input]),
                           ToString(FrontierGet(frontier, grad_op_input)) >>)
             ELSE NoError
        ELSE IF grad_op_input \notin Range(locally_generated_blobs)
             THEN Raise("UndefinedLocalReference",
                        << grad_op_input, ToString(forward_op) >>)
             ELSE NoError

\* The check that takes any other blob as generated locally.
CheckGradientOperatorInput_AnyLocal(grad_op_input, g_output, fwd_op_idx, locally_generated_blobs) ==
    LET forward_op     == ssa[fwd_op_idx].op
        in_versions    == ssa[fwd_op_idx].in_versions
        out_versions   == ssa[fwd_op_idx].out_versions
        original_index == GetIndexFromGradientList(g_output, grad_op_input)
        original_name  == forward_op.output[original_index + 1]
    IN  IF original_index # -1
        THEN IF original_name \notin DOMAIN gradient_frontier
             THEN Raise("KeyError", << original_name >>)
             ELSE IF out_versions[original_name] # gradient_frontier[original_name]
                  THEN Raise("GradientVersionMismatch",
                             << grad_op_input,
                                ToString(out_versions[original_name]),
                                original_name,
                                ToString(gradient_frontier[original_name]) >>)
                  ELSE NoError
        ELSE IF grad_op_input \in DOMAIN out_versions
        THEN IF FrontierGet(frontier, grad_op_input) # out_versions[grad_op_input]
             THEN Raise("OutputVersionMismatch",
                        << grad_op_input, ToString(out_versions[grad_op_input]),
                           ToString(FrontierGet(frontier, grad_op_input)) >>)
             ELSE NoError
        ELSE IF grad_op_input \in DOMAIN in_versions
        THEN IF FrontierGet(frontier, grad_op_input) # in_versions[grad_op_input]
             THEN Raise("InputVersionMismatch",
                        << grad_op_input, ToString(in_versions[grad_op_input]),
                           ToString(FrontierGet(frontier, grad_op_input)) >>)
             ELSE NoError
        ELSE IF FALSE
             THEN Raise("UndefinedLocalReference",
                        << grad_op_input, ToString(forward_op) >>)
             ELSE NoError

CheckGradientOperatorInput(grad_op_input, g_output, fwd_op_idx, locally_generated_blobs) ==
    LET forward_op     == ssa[fwd_op_idx].op
        in_versions    == ssa[fwd_op_idx].in_versions
        out_versions   == ssa[fwd_op_idx].out_versions
        original_index == GetIndexFromGradientList(g_output, grad_op_input)
        original_name  == forward_op.output[original_index + 1]
    IN  IF original_index # -1
        THEN IF original_name \notin DOMAIN gradient_frontier
             THEN Raise("KeyError", << original_name >>)
             ELSE IF out_versions[original_name] # gradient_frontier[original_name]
                  THEN Raise("GradientVersionMismatch",
                             << grad_op_input,
                                ToString(out_versions[original_name]),
                                original_name,
                                ToString(gradient_frontier[original_name]) >>)
                  ELSE NoError
        ELSE IF grad_op_input \in DOMAIN out_versions
        THEN IF FrontierGet(frontier, grad_op_input) # out_versions[grad_op_input]
             THEN Raise("OutputVersionMismatch",
                        << grad_op_input, ToString(out_versions[grad_op_input]),
                           ToString(FrontierGet(frontier, grad_op_input)) >>)
             ELSE NoError
        ELSE IF grad_op_input \in DOMAIN in_versions
        THEN IF FrontierGet(frontier, grad_op_input) # in_versions[grad_op_input]
             THEN Raise("InputVersionMismatch",
                        << grad_op_input, ToString(in_versions[grad_op_input]),
                           ToString(FrontierGet(frontier, grad_op_input)) >>)
             ELSE NoError
        ELSE IF grad_op_input \notin Range(locally_generated_blobs)
             THEN Raise("UndefinedLocalReference",
                        << grad_op_input, ToString(forward_op) >>)
             ELSE NoError

RECURSIVE CheckInputs(_, _, _, _, _)
CheckInputs(input, k, g_output, fwd_op_idx, locally_generated_blobs) ==
    IF k > Len(input) THEN NoError
    ELSE LET e == CheckGradientOperatorInput(input[k], g_output, fwd_op_idx,
                                             locally_generated_blobs)
         IN  IF e # NoError THEN e
             ELSE CheckInputs(input, k + 1, g_output, fwd_op_idx,
                              locally_generated_blobs)

-----------------------------------------------------------------------------
(* Generators.  grad_op fields hold a position of all_gradient_ops, 0 for  *)
(* None; idx fields are 0-based as in the source.                          *)

GradGenMeta(grad_op, idx, gradient) ==
    [type |-> "GradGenMeta", grad_op |-> grad_op, idx |-> idx,
     gradient |-> gradient]
SparseGradGenMeta(op_i, idx_i, op_v, idx_v, gradient) ==
    [type |-> "SparseGradGenMeta", grad_op_indices |-> op_i, idx_indices |-> idx_i,
     grad_op_values |-> op_v, idx_values |-> idx_v, gradient |-> gradient]

\* Python's `a or b` on operator references.
OrElse(a, b) == IF a # 0 THEN a ELSE b

\* Of two partial generators the first one kept as it is.
MergeSparse_FirstHalf(generators) ==
    IF Len(generators) = 1 THEN [err |-> NoError, generator |-> generators[1]]
    ELSE LET a == generators[1]
             b == generators[2]
         IN  IF \/ Len(generators) # 2
                \/ a.gradient # b.gradient
                \/ ~(a.grad_op_indices = 0 \/ b.grad_op_indices = 0)
                \/ ~(a.grad_op_values = 0 \/ b.grad_op_values = 0)
                \/ ~(a.idx_indices = 0 \/ b.idx_indices = 0)
                \/ ~(a.idx_values = 0 \/ b.idx_values = 0)
             THEN [err |-> Raise("AssertionError", << >>), generator |-> a]
             ELSE [err |-> NoError, generator |-> a]

(* IR.AppendSparseGenerators, for the generators of one (name, version):   *)
(* the generator to append, or the failed assertion.                       *)
MergeSparse(generators) ==
    IF Len(generators) = 1 THEN [err |-> NoError, generator |-> generators[1]]
    ELSE LET a == generators[1]
             b == generators[2]
         IN  IF \/ Len(generators) # 2
                \/ a.gradient # b.gradient
                \/ ~(a.grad_op_indices = 0 \/ b.grad_op_indices = 0)
                \/ ~(a.grad_op_values = 0 \/ b.grad_op_values = 0)
                \/ ~(a.idx_indices = 0 \/ b.idx_indices = 0)
                \/ ~(a.idx_values = 0 \/ b.idx_values = 0)
             THEN [err |-> Raise("AssertionError", << >>), generator |-> a]
             ELSE [err |-> NoError,
                   generator |-> SparseGradGenMeta(
                       OrElse(a.grad_op_indices, b.grad_op_indices),
                       a.idx_indices + b.idx_indices,
                       OrElse(a.grad_op_values, b.grad_op_values),
                       a.idx_values + b.idx_values,
                       a.gradient)]

\* The (name, version) lists of one call are disjoint, so the order in which
\* the dictionary is walked does not show in the result.
AppendSparseGenerators(gg, sparse_generators) ==
    LET keys   == DOMAIN sparse_generators
        merged == [k \in keys |-> MergeSparse(sparse_generators[k])]
        failed == \E k \in keys : merged[k].err # NoError
    IN  [err |-> IF failed THEN Raise("AssertionError", << >>) ELSE NoError,
         gg  |-> IF failed THEN gg
                 ELSE [k \in DOMAIN gg \cup keys |->
                          IF k \in keys
                          THEN Append(ListGet(gg, k), merged[k].generator)
                          ELSE gg[k]]]

-----------------------------------------------------------------------------
(* IR.BuildGradientGenerators.  The gradient operators of this call will   *)
(* stand at positions base + 1 .. base + Len(gradient_ops) of              *)
(* all_gradient_ops.  The loops are folds; each step's result is bound     *)
(* (The({ ... : x \in { e } })) before the next step reads it.             *)

\* Step (2) for output i of one gradient operator.
RecordOutput(st, grad_op, ref, i, fwd_op_idx, g_input) ==
    LET output      == grad_op.output[i]
        input_index == GetIndexFromGradientList(g_input, output)
        input_name  == ssa[fwd_op_idx].op.input[input_index + 1]
        key         == << input_name, ssa[fwd_op_idx].in_versions[input_name] >>
        g           == g_input[input_index + 1]
        m           == IF g[1] = output
                       THEN SparseGradGenMeta(ref, i - 1, 0, 0, g)
                       ELSE SparseGradGenMeta(0, 0, ref, i - 1, g)
    IN  IF input_index = -1 THEN st
        ELSE IF IsSlice(g)
        THEN [st EXCEPT !.sparse = ListAppend(@, key, m)]
        ELSE [st EXCEPT !.gg = ListAppend(@, key, GradGenMeta(ref, i - 1, g))]

RECURSIVE RecordOutputs(_, _, _, _, _, _)
RecordOutputs(st, grad_op, ref, i, fwd_op_idx, g_input) ==
    IF i > Len(grad_op.output) THEN st
    ELSE The({ RecordOutputs(st1, grad_op, ref, i + 1, fwd_op_idx, g_input) :
               st1 \in { RecordOutput(st, grad_op, ref, i, fwd_op_idx, g_input) } })

\* Gradient operators checked without a record of what the operators before
\* them in the call have produced.
RECURSIVE RecordGradOps_NothingLocal(_, _, _, _, _, _, _)
RecordGradOps_NothingLocal(st, gradient_ops, k, base, fwd_op_idx, g_output, g_input) ==
    IF k > Len(gradient_ops) THEN st
    ELSE LET grad_op == gradient_ops[k]
             e == CheckInputs(grad_op.input, 1, g_output, fwd_op_idx, << >>)
         IN  IF e # NoError THEN [st EXCEPT !.err = e]
             ELSE The({ RecordGradOps_NothingLocal(st2, gradient_ops, k + 1, base,
                                      fwd_op_idx, g_output, g_input) :
                        st2 \in { RecordOutputs(
                                      [st EXCEPT !.locally = @ \o grad_op.output],
                                      grad_op, base + k, 1, fwd_op_idx, g_input) } })

\* Steps (1) and (2) for the gradient operators k, k + 1, ...
RECURSIVE RecordGradOps(_, _, _, _, _, _, _)
RecordGradOps(st, gradient_ops, k, base, fwd_op_idx, g_output, g_input) ==
    IF k > Len(gradient_ops) THEN st
    ELSE LET grad_op == gradient_ops[k]
             e == CheckInputs(grad_op.input, 1, g_output, fwd_op_idx, st.locally)
         IN  IF e # NoError THEN [st EXCEPT !.err = e]
             ELSE The({ RecordGradOps(st2, gradient_ops, k + 1, base, fwd_op_idx,
                                      g_output, g_input) :
                        st2 \in { RecordOutputs(
                                      [st EXCEPT !.locally = @ \o grad_op.output],
                                      grad_op, base + k, 1, fwd_op_idx, g_input) } })

\* Step (4): a gradient that no gradient operator of this call produces.
PassthroughGenerator(gg, locally, j, fwd_op_idx, g_input) ==
    LET input_name == ssa[fwd_op_idx].op.input[j]
        key == << input_name, ssa[fwd_op_idx].in_versions[input_name] >>
        g   == g_input[j]
    IN  IF g = None THEN gg
        ELSE IF IsSlice(g)
        THEN IF g[1] \notin Range(locally) /\ g[2] \notin Range(locally)
             THEN ListAppend(gg, key, SparseGradGenMeta(0, 0, 0, 0, g))
             ELSE gg
        ELSE IF g[1] \notin Range(locally)
             THEN ListAppend(gg, key, GradGenMeta(0, 0, g))
             ELSE gg

RECURSIVE RecordPassthrough(_, _, _, _, _)
RecordPassthrough(gg, locally, j, fwd_op_idx, g_input) ==
    IF j > Len(g_input) THEN gg
    ELSE The({ RecordPassthrough(gg1, locally, j + 1, fwd_op_idx, g_input) :
               gg1 \in { PassthroughGenerator(gg, locally, j, fwd_op_idx,
                                              g_input) } })

\* The last step: the gradient frontier of the inputs that got a gradient.
\* A name listed twice has one input version, so the order does not show.
\* A generation step that leaves the gradient frontier as it found it.
UpdateGradientFrontier_Kept(gf, fwd_op_idx, g_input) == gf

UpdateGradientFrontier(gf, fwd_op_idx, g_input) ==
    LET input == ssa[fwd_op_idx].op.input
        set == { input[j] : j \in { i \in DOMAIN g_input : g_input[i] # None } }
    IN  [n \in DOMAIN gf \cup set |->
            IF n \in set THEN ssa[fwd_op_idx].in_versions[n] ELSE gf[n]]

\* Answers [err, gg, gf]: the exception if any, and the gradient generators
\* and gradient frontier as the call leaves them.
BuildGradientGenerators(fwd_op_idx, gradient_ops, g_output, g_input) ==
    The({ IF st1.err # NoError
          THEN [err |-> st1.err, gg |-> st1.gg, gf |-> gradient_frontier]
          ELSE The({ IF ap.err # NoError
                     THEN [err |-> ap.err, gg |-> ap.gg, gf |-> gradient_frontier]
                     ELSE [err |-> NoError,
                           gg |-> RecordPassthrough(ap.gg, st1.locally, 1,
                                                    fwd_op_idx, g_input),
                           gf |-> UpdateGradientFrontier(gradient_frontier,
                                                         fwd_op_idx, g_input)] :
                     ap \in { AppendSparseGenerators(st1.gg, st1.sparse) } }) :
          st1 \in { RecordGradOps(
                        [err |-> NoError, gg |-> gradient_generators,
                         sparse |-> EmptyMap, locally |-> << >>],
                        gradient_ops, 1, Len(all_gradient_ops), fwd_op_idx,
                        g_output, g_input) } })

-----------------------------------------------------------------------------
(* Accumulation.  ops is the operator list as it stands, the gradient      *)
(* operators of the generators among them.                                 *)

EndsWith(s, suffix) ==
    /\ Len(s) >= Len(suffix)
    /\ SubSeq(s, Len(s) - Len(suffix) + 1, Len(s)) = suffix
remove_suffix(s, suffix) ==
    IF EndsWith(s, suffix) THEN SubSeq(s, 1, Len(s) - Len(suffix)) ELSE s

(* IR._GetSumOpOutputName *)
RECURSIVE GetSumOpOutputName(_, _, _, _)
GetSumOpOutputName(generator, k, input_name, ops) ==
    IF k > Len(generator) THEN input_name \o "_grad"
    ELSE LET g == generator[k]
         IN  IF g.type = "GradGenMeta"
             THEN IF g.grad_op # 0 THEN ops[g.grad_op].output[g.idx + 1]
                  ELSE GetSumOpOutputName(generator, k + 1, input_name, ops)
             ELSE IF g.grad_op_indices # 0
                  THEN remove_suffix(
                           ops[g.grad_op_indices].output[g.idx_indices + 1],
                           "_indices")
                  ELSE IF g.grad_op_values # 0
                  THEN remove_suffix(
                           ops[g.grad_op_values].output[g.idx_values + 1],
                           "_values")
                  ELSE GetSumOpOutputName(generator, k + 1, input_name, ops)

(* IR._DisambiguateGradOpOutput: the operator list after the renaming.     *)
AutosplitName(name, cnt) == "_" \o name \o "_autosplit_" \o ToString(cnt)
\* A renaming that numbers every output 0.
DisambiguateGradOpOutput_FirstCounter(ops, grad_op, idx, cnt) ==
    [ops EXCEPT ![grad_op].output[idx + 1] = "_" \o @ \o "_autosplit_0"]

\* A renaming that leaves the output under its name.
DisambiguateGradOpOutput_Unrenamed(ops, grad_op, idx, cnt) == ops

DisambiguateGradOpOutput(ops, grad_op, idx, cnt) ==
    [ops EXCEPT ![grad_op].output[idx + 1] = AutosplitName(@, cnt)]

(* IR._CheckSumOpsConflict *)
\* No name taken for a conflict.
CheckSumOpsConflict_Never(out_base_name, g) == FALSE

CheckSumOpsConflict(out_base_name, g) == out_base_name = g

(* IR._MakeDenseSumOps: one generator, then the loop.                     *)
DenseSumInput(st, g, out_base_name) ==
    IF g.grad_op # 0
    THEN The({ [st EXCEPT !.ops = ops1, !.cnt = @ + 1,
                    !.sum_op_input =
                        Append(@, ops1[g.grad_op].output[g.idx + 1])] :
               ops1 \in { DisambiguateGradOpOutput(st.ops, g.grad_op, g.idx,
                                                   st.cnt) } })
    ELSE IF CheckSumOpsConflict(out_base_name, g.gradient[1])
         THEN [st EXCEPT !.err = Raise("NamingCollision", << >>)]
         ELSE [st EXCEPT !.sum_op_input = Append(@, g.gradient[1])]

RECURSIVE DenseSumInputs(_, _, _, _)
DenseSumInputs(st, generators, k, out_base_name) ==
    IF k > Len(generators) \/ st.err # NoError THEN st
    ELSE The({ DenseSumInputs(st1, generators, k + 1, out_base_name) :
               st1 \in { DenseSumInput(st, generators[k], out_base_name) } })

\* The dense sum without its Sum operator.
MakeDenseSumOps_Unsummed(generators, out_base_name, ops) ==
    The({ [err |-> st.err, ops |-> st.ops, sum_ops |-> << >>,
           g |-> Dense(out_base_name)] :
          st \in { DenseSumInputs([err |-> NoError, ops |-> ops, cnt |-> 0,
                                   sum_op_input |-> << >>],
                                  generators, 1, out_base_name) } })

MakeDenseSumOps(generators, out_base_name, ops) ==
    The({ [err |-> st.err, ops |-> st.ops,
           sum_ops |-> << GradOp("Sum", st.sum_op_input, << out_base_name >>,
                                 "") >>,
           g |-> Dense(out_base_name)] :
          st \in { DenseSumInputs([err |-> NoError, ops |-> ops, cnt |-> 0,
                                   sum_op_input |-> << >>],
                                  generators, 1, out_base_name) } })

(* IR._MakeSparseSumOps: the indices of one generator, its values, then    *)
(* the loop.                                                               *)
SparseSumIndices(st, g, out_base_name) ==
    IF g.grad_op_indices # 0
    THEN The({ [st EXCEPT !.ops = ops1, !.cnt_i = @ + 1,
                    !.indices_concat_input = Append(@,
                        ops1[g.grad_op_indices].output[g.idx_indices + 1])] :
               ops1 \in { DisambiguateGradOpOutput(st.ops, g.grad_op_indices,
                                                   g.idx_indices, st.cnt_i) } })
    ELSE IF CheckSumOpsConflict(out_base_name, g.gradient[1])
         THEN [st EXCEPT !.err = Raise("NamingCollision", << >>)]
         ELSE [st EXCEPT !.indices_concat_input = Append(@, g.gradient[1])]

\* The values put in front of the ones gathered so far.
SparseSumValues_InFront(st, g, out_base_name) ==
    IF st.err # NoError THEN st
    ELSE IF g.grad_op_values # 0
    THEN The({ [st EXCEPT !.ops = ops2, !.cnt_v = @ + 1,
                    !.values_concat_input =
                        << ops2[g.grad_op_values].output[g.idx_values + 1] >>
                           \o @] :
               ops2 \in { DisambiguateGradOpOutput(st.ops, g.grad_op_values,
                                                   g.idx_values, st.cnt_v) } })
    ELSE IF CheckSumOpsConflict(out_base_name, g.gradient[2])
         THEN [st EXCEPT !.err = Raise("NamingCollision", << >>)]
         ELSE [st EXCEPT !.values_concat_input = << g.gradient[2] >> \o @]

SparseSumValues(st, g, out_base_name) ==
    IF st.err # NoError THEN st
    ELSE IF g.grad_op_values # 0
    THEN The({ [st EXCEPT !.ops = ops2, !.cnt_v = @ + 1,
                    !.values_concat_input = Append(@,
                        ops2[g.grad_op_values].output[g.idx_values + 1])] :
               ops2 \in { DisambiguateGradOpOutput(st.ops, g.grad_op_values,
                                                   g.idx_values, st.cnt_v) } })
    ELSE IF CheckSumOpsConflict(out_base_name, g.gradient[2])
         THEN [st EXCEPT !.err = Raise("NamingCollision", << >>)]
         ELSE [st EXCEPT !.values_concat_input = Append(@, g.gradient[2])]

RECURSIVE SparseSumInputs(_, _, _, _)
SparseSumInputs(st, generators, k, out_base_name) ==
    IF k > Len(generators) \/ st.err # NoError THEN st
    ELSE The({ SparseSumInputs(st2, generators, k + 1, out_base_name) :
               st2 \in { SparseSumValues(st1, generators[k], out_base_name) :
                         st1 \in { SparseSumIndices(st, generators[k],
                                                    out_base_name) } } })

MakeSparseSumOps(generators, out_base_name, ops) ==
    The({ [err |-> st.err, ops |-> st.ops,
           sum_ops |->
               << GradOp("Concat", st.indices_concat_input,
                         << out_base_name \o "_indices_concat",
                            out_base_name \o "_indices_concat_split" >>, ""),
                  GradOp("Concat", st.values_concat_input,
                         << out_base_name \o "_values_concat",
                            out_base_name \o "_values_concat_split" >>, "") >>,
           g |-> GradientSlice(out_base_name \o "_indices_concat",
                               out_base_name \o "_values_concat")] :
          st \in { SparseSumInputs([err |-> NoError, ops |-> ops, cnt_i |-> 0,
                                    cnt_v |-> 0,
                                    indices_concat_input |-> << >>,
                                    values_concat_input |-> << >>],
                                   generators, 1, out_base_name) } })

(* IR._SetSumOpsDeviceOption: the device option the sum operators get      *)
(* ("" leaves them without one).  The loop ends after its first generator.  *)
GeneratorGradOp(g) ==
    IF g.type = "GradGenMeta" THEN g.grad_op
    ELSE OrElse(g.grad_op_values, g.grad_op_indices)

SumOpsDeviceOption(generators, ops) ==
    IF Len(generators) >= 1 /\ GeneratorGradOp(generators[1]) # 0
    THEN ops[GeneratorGradOp(generators[1])].device_option
    ELSE ""

(* IR._MakeSumOps *)
MakeSumOps(generators, input_name, ops) ==
    The({ [r EXCEPT !.sum_ops =
              [i \in DOMAIN r.sum_ops |->
                  [r.sum_ops[i] EXCEPT !.device_option =
                      SumOpsDeviceOption(generators, ops)]]] :
          r \in { IF generators[1].type = "GradGenMeta"
                  THEN MakeDenseSumOps(generators, out_base_name, ops)
                  ELSE MakeSparseSumOps(generators, out_base_name, ops) :
                  out_base_name \in
                      { GetSumOpOutputName(generators, 1, input_name, ops) } } })

(* IR._VerifyGradientGenerators: [err, sum], sum telling whether a sum is  *)
(* to be carried out.                                                      *)
RECURSIVE AllGradientNames(_, _)
AllGradientNames(generator, k) ==
    IF k > Len(generator) THEN {}
    ELSE LET g == generator[k]
             here == IF g.type = "GradGenMeta"
                     THEN IF g.grad_op # 0 THEN { g.gradient[1] } ELSE {}
                     ELSE IF g.grad_op_values # 0 THEN { g.gradient[2] } ELSE {}
         IN  here \cup AllGradientNames(generator, k + 1)

RECURSIVE AllDeviceOptions(_, _, _)
AllDeviceOptions(generator, k, ops) ==
    IF k > Len(generator) THEN << >>
    ELSE LET g == generator[k]
             here == IF g.type = "GradGenMeta"
                     THEN IF g.grad_op # 0
                          THEN << ops[g.grad_op].device_option >> ELSE << >>
                     ELSE (IF g.grad_op_indices # 0
                           THEN << ops[g.grad_op_indices].device_option >>
                           ELSE << >>)
                          \o (IF g.grad_op_values # 0
                              THEN << ops[g.grad_op_values].device_option >>
                              ELSE << >>)
         IN  here \o AllDeviceOptions(generator, k + 1, ops)

\* The device options of the gradient operators not compared.
VerifyGradientGenerators_AnyDevice(generator, ops) ==
    IF Cardinality({ generator[k].type : k \in DOMAIN generator }) > 1
    THEN [err |-> Raise("MixedSparseDense", << >>), sum |-> FALSE]
    ELSE IF Len(generator) < 2 THEN [err |-> NoError, sum |-> FALSE]
    ELSE IF Cardinality(AllGradientNames(generator, 1)) > 1
    THEN [err |-> Raise("GradNamesDiffer", << >>), sum |-> FALSE]
    ELSE [err |-> NoError, sum |-> TRUE]

\* A mix of sparse and dense generators taken as nothing to sum.
\* VerifyGradientGenerators without the comparison of the gradient names.
VerifyGradientGenerators_AnyName(generator, ops) ==
    LET all_device_options == AllDeviceOptions(generator, 1, ops)
    IN  IF Cardinality({ generator[k].type : k \in DOMAIN generator }) > 1
        THEN [err |-> Raise("MixedSparseDense", << >>), sum |-> FALSE]
        ELSE IF Len(generator) < 2 THEN [err |-> NoError, sum |-> FALSE]
        ELSE IF /\ Len(all_device_options) >= 2
                /\ \E i \in DOMAIN all_device_options :
                       all_device_options[i] # all_device_options[1]
        THEN [err |-> Raise("DeviceOptionsDiffer", << >>), sum |-> FALSE]
        ELSE [err |-> NoError, sum |-> TRUE]

VerifyGradientGenerators_MixedSkipped(generator, ops) ==
    LET all_device_options == AllDeviceOptions(generator, 1, ops)
    IN  IF Cardinality({ generator[k].type : k \in DOMAIN generator }) > 1
        THEN [err |-> NoError, sum |-> FALSE]
        ELSE IF Len(generator) < 2 THEN [err |-> NoError, sum |-> FALSE]
        ELSE IF Cardinality(AllGradientNames(generator, 1)) > 1
        THEN [err |-> Raise("GradNamesDiffer", << >>), sum |-> FALSE]
        ELSE IF /\ Len(all_device_options) >= 2
                /\ \E i \in DOMAIN all_device_options :
                       all_device_options[i] # all_device_options[1]
        THEN [err |-> Raise("DeviceOptionsDiffer", << >>), sum |-> FALSE]
        ELSE [err |-> NoError, sum |-> TRUE]

VerifyGradientGenerators(generator, ops) ==
    LET all_device_options == AllDeviceOptions(generator, 1, ops)
    IN  IF Cardinality({ generator[k].type : k \in DOMAIN generator }) > 1
        THEN [err |-> Raise("MixedSparseDense", << >>), sum |-> FALSE]
        ELSE IF Len(generator) < 2 THEN [err |-> NoError, sum |-> FALSE]
        ELSE IF Cardinality(AllGradientNames(generator, 1)) > 1
        THEN [err |-> Raise("GradNamesDiffer", << >>), sum |-> FALSE]
        ELSE IF /\ Len(all_device_options) >= 2
                /\ \E i \in DOMAIN all_device_options :
                       all_device_options[i] # all_device_options[1]
        THEN [err |-> Raise("DeviceOptionsDiffer", << >>), sum |-> FALSE]
        ELSE [err |-> NoError, sum |-> TRUE]

-----------------------------------------------------------------------------
(* IR.DoGradientAccumulation.  order lists the distinct input names of the *)
(* forward operator in the order the set is walked.                        *)

\* Accumulation only for a blob that several operators list.
AccumulateInput_SeveralOperators(st, input_name, fwd_op_idx) ==
    LET input_version == ssa[fwd_op_idx].in_versions[input_name]
        key           == << input_name, input_version >>
        input_usage   == ListGet(input_usages, key)
        generator     == ListGet(st.gg, key)
        gg1 == IF key \in DOMAIN st.gg THEN st.gg ELSE st.gg @@ (key :> << >>)
    IN  IF Cardinality(Range(input_usage)) <= 1 \/ fwd_op_idx # input_usage[1] THEN st
        ELSE The({
            IF v.err # NoError
            THEN [st EXCEPT !.gg = gg1,
                      !.err = Raise(v.err.kind, << input_name >>)]
            ELSE IF ~v.sum THEN [st EXCEPT !.gg = gg1]
            ELSE The({
                IF m.err # NoError
                THEN [st EXCEPT !.gg = gg1, !.ops = m.ops, !.err = m.err]
                ELSE [st EXCEPT
                        !.gg = gg1,
                        !.ops = m.ops,
                        !.sum_ops = @ \o m.sum_ops,
                        !.grad_map = Update(@, (input_name :> m.g)),
                        !.acc = Append(@,
                            [name |-> input_name, version |-> input_version,
                             fwd_op_idx |-> fwd_op_idx,
                             generators |-> generator,
                             sum_ops |-> m.sum_ops, g |-> m.g,
                             at |-> Len(st.ops) + Len(st.sum_ops) + 1])] :
                m \in { MakeSumOps(generator, input_name, st.ops) } }) :
            v \in { VerifyGradientGenerators(generator, st.ops) } })

\* Accumulation at the last operator that lists the blob.
AccumulateInput_AtLastUse(st, input_name, fwd_op_idx) ==
    LET input_version == ssa[fwd_op_idx].in_versions[input_name]
        key           == << input_name, input_version >>
        input_usage   == ListGet(input_usages, key)
        generator     == ListGet(st.gg, key)
        gg1 == IF key \in DOMAIN st.gg THEN st.gg ELSE st.gg @@ (key :> << >>)
    IN  IF Len(input_usage) <= 1 \/ fwd_op_idx # input_usage[Len(input_usage)] THEN st
        ELSE The({
            IF v.err # NoError
            THEN [st EXCEPT !.gg = gg1,
                      !.err = Raise(v.err.kind, << input_name >>)]
            ELSE IF ~v.sum THEN [st EXCEPT !.gg = gg1]
            ELSE The({
                IF m.err # NoError
                THEN [st EXCEPT !.gg = gg1, !.ops = m.ops, !.err = m.err]
                ELSE [st EXCEPT
                        !.gg = gg1,
                        !.ops = m.ops,
                        !.sum_ops = @ \o m.sum_ops,
                        !.grad_map = Update(@, (input_name :> m.g)),
                        !.acc = Append(@,
                            [name |-> input_name, version |-> input_version,
                             fwd_op_idx |-> fwd_op_idx,
                             generators |-> generator,
                             sum_ops |-> m.sum_ops, g |-> m.g,
                             at |-> Len(st.ops) + Len(st.sum_ops) + 1])] :
                m \in { MakeSumOps(generator, input_name, st.ops) } }) :
            v \in { VerifyGradientGenerators(generator, st.ops) } })

\* One input name of the forward operator.
AccumulateInput(st, input_name, fwd_op_idx) ==
    LET input_version == ssa[fwd_op_idx].in_versions[input_name]
        key           == << input_name, input_version >>
        input_usage   == ListGet(input_usages, key)
        generator     == ListGet(st.gg, key)
        gg1 == IF key \in DOMAIN st.gg THEN st.gg ELSE st.gg @@ (key :> << >>)
    IN  IF Len(input_usage) <= 1 \/ fwd_op_idx # input_usage[1] THEN st
        ELSE The({
            IF v.err # NoError
            THEN [st EXCEPT !.gg = gg1,
                      !.err = Raise(v.err.kind, << input_name >>)]
            ELSE IF ~v.sum THEN [st EXCEPT !.gg = gg1]
            ELSE The({
                IF m.err # NoError
                THEN [st EXCEPT !.gg = gg1, !.ops = m.ops, !.err = m.err]
                ELSE [st EXCEPT
                        !.gg = gg1,
                        !.ops = m.ops,
                        !.sum_ops = @ \o m.sum_ops,
                        !.grad_map = Update(@, (input_name :> m.g)),
                        !.acc = Append(@,
                            [name |-> input_name, version |-> input_version,
                             fwd_op_idx |-> fwd_op_idx,
                             generators |-> generator,
                             sum_ops |-> m.sum_ops, g |-> m.g,
                             at |-> Len(st.ops) + Len(st.sum_ops) + 1])] :
                m \in { MakeSumOps(generator, input_name, st.ops) } }) :
            v \in { VerifyGradientGenerators(generator, st.ops) } })

RECURSIVE AccumulateInputs(_, _, _, _)
AccumulateInputs(st, order, k, fwd_op_idx) ==
    IF k > Len(order) \/ st.err # NoError THEN st
    ELSE The({ AccumulateInputs(st1, order, k + 1, fwd_op_idx) :
               st1 \in { AccumulateInput(st, order[k], fwd_op_idx) } })

Perms(S) ==
    { p \in [1 .. Cardinality(S) -> S] :
        \A i, j \in 1 .. Cardinality(S) : p[i] = p[j] => i = j }

DoGradientAccumulation ==
    /\ pc = "accumulate"
    /\ \E order \in Perms(Range(ssa[forward_op_idx].op.input)) :
       \E st \in { AccumulateInputs(
                       [err |-> NoError, ops |-> all_gradient_ops, sum_ops |-> << >>,
                        grad_map |-> EmptyMap, gg |-> gradient_generators,
                        acc |-> accumulations],
                       order, 1, forward_op_idx) } :
             /\ gradient_generators' = st.gg
             /\ IF st.err # NoError
                THEN /\ pc' = "failed"
                     /\ error' = st.err
                     /\ all_gradient_ops' = st.ops
                     /\ UNCHANGED << all_input_to_grad, forward_op_idx,
                                     accumulations, op_origin >>
                ELSE /\ all_input_to_grad' = Update(all_input_to_grad, st.grad_map)
                     /\ all_gradient_ops' = st.ops \o st.sum_ops
                     /\ accumulations' = st.acc
                     /\ op_origin' = op_origin \o
                            [k \in DOMAIN st.sum_ops |-> Origin("sum", forward_op_idx)]
                     /\ forward_op_idx' = forward_op_idx - 1
                     /\ pc' = IF forward_op_idx = 1 THEN "done" ELSE "generate"
                     /\ UNCHANGED error
    /\ UNCHANGED << catalog, ssa, input_usages, frontier, gradient_frontier, ys >>
    /\ UNCHANGED << net_vars, plan_vars, call >>

-----------------------------------------------------------------------------
(* IR._GenerateGradientsForForwardOp, with the update of the running map   *)
(* and of the operator list that follows it in GetBackwardPass.            *)

MapGet(d, k) == IF k \in DOMAIN d THEN d[k] ELSE None

\* Every returned gradient recorded, None or not.
NewInputToGrad_Always(forward_op, g_input, input_to_grad) ==
    LET zipped == { j \in DOMAIN forward_op.input : j \in DOMAIN g_input }
        js(n)  == { j \in zipped : forward_op.input[j] = n }
        names  == { forward_op.input[j] : j \in zipped }
    IN  [n \in names |->
            g_input[CHOOSE j \in js(n) : \A i \in js(n) : i <= j]]

\* new_input_to_grad: the last position of each name that may be recorded.
NewInputToGrad(forward_op, g_input, input_to_grad) ==
    LET ok(j) == \/ g_input[j] # None
                 \/ forward_op.input[j] \notin DOMAIN input_to_grad
                 \/ forward_op.input[j] \in Range(forward_op.output)
        zipped == { j \in DOMAIN forward_op.input : j \in DOMAIN g_input }
        js(n)  == { j \in zipped : forward_op.input[j] = n /\ ok(j) }
        names  == { forward_op.input[j] : j \in { i \in zipped : ok(i) } }
    IN  [n \in names |->
            g_input[CHOOSE j \in js(n) : \A i \in js(n) : i <= j]]

\* A generation step that asks for the gradient rule whatever the gradients
\* of the outputs are.
GenerateGradientsForForwardOp_AlwaysDispatch ==
    /\ pc = "generate"
    /\ \E forward_op \in { ssa[forward_op_idx].op } :
       \E g_output \in { [i \in DOMAIN forward_op.output |->
                             MapGet(all_input_to_grad, forward_op.output[i])] } :
              \E r \in { GetGradientForOp(forward_op, g_output) } :
              IF r.raised # NoError
              THEN /\ pc' = "failed"
                   /\ error' = r.raised
                   /\ UNCHANGED << gradient_generators, gradient_frontier,
                                   all_input_to_grad, all_gradient_ops,
                                   op_origin >>
              ELSE \E b \in { BuildGradientGenerators(
                                  forward_op_idx, r.gradient_ops, g_output,
                                  r.g_input) } :
                   /\ gradient_generators' = b.gg
                   /\ gradient_frontier' = b.gf
                   /\ IF b.err # NoError
                      THEN /\ pc' = "failed"
                           /\ error' = b.err
                           /\ UNCHANGED << all_input_to_grad, all_gradient_ops,
                                           op_origin >>
                      ELSE /\ pc' = "accumulate"
                           /\ all_input_to_grad' =
                                  Update(all_input_to_grad,
                                         NewInputToGrad(forward_op, r.g_input,
                                                        all_input_to_grad))
                           /\ all_gradient_ops' =
                                  all_gradient_ops \o r.gradient_ops
                           /\ op_origin' = op_origin \o
                                  [k \in DOMAIN r.gradient_ops |->
                                      Origin("grad", forward_op_idx)]
                           /\ UNCHANGED error
    /\ UNCHANGED << catalog, ssa, input_usages, frontier, ys, forward_op_idx,
                    accumulations >>
    /\ UNCHANGED << net_vars, plan_vars, call >>

GenerateGradientsForForwardOp ==
    /\ pc = "generate"
    /\ \E forward_op \in { ssa[forward_op_idx].op } :
       \E g_output \in { [i \in DOMAIN forward_op.output |->
                             MapGet(all_input_to_grad, forward_op.output[i])] } :
         IF \A i \in DOMAIN g_output : g_output[i] = None
         THEN /\ pc' = "accumulate"
              /\ UNCHANGED << gradient_generators, gradient_frontier,
                              all_input_to_grad, all_gradient_ops, error,
                              op_origin >>
         ELSE \E r \in { GetGradientForOp(forward_op, g_output) } :
              IF r.raised # NoError
              THEN /\ pc' = "failed"
                   /\ error' = r.raised
                   /\ UNCHANGED << gradient_generators, gradient_frontier,
                                   all_input_to_grad, all_gradient_ops,
                                   op_origin >>
              ELSE \E b \in { BuildGradientGenerators(
                                  forward_op_idx, r.gradient_ops, g_output,
                                  r.g_input) } :
                   /\ gradient_generators' = b.gg
                   /\ gradient_frontier' = b.gf
                   /\ IF b.err # NoError
                      THEN /\ pc' = "failed"
                           /\ error' = b.err
                           /\ UNCHANGED << all_input_to_grad, all_gradient_ops,
                                           op_origin >>
                      ELSE /\ pc' = "accumulate"
                           /\ all_input_to_grad' =
                                  Update(all_input_to_grad,
                                         NewInputToGrad(forward_op, r.g_input,
                                                        all_input_to_grad))
                           /\ all_gradient_ops' =
                                  all_gradient_ops \o r.gradient_ops
                           /\ op_origin' = op_origin \o
                                  [k \in DOMAIN r.gradient_ops |->
                                      Origin("grad", forward_op_idx)]
                           /\ UNCHANGED error
    /\ UNCHANGED << catalog, ssa, input_usages, frontier, ys, forward_op_idx,
                    accumulations >>
    /\ UNCHANGED << net_vars, plan_vars, call >>

-----------------------------------------------------------------------------
(* IR.GetBackwardPass up to its loop.  The caller hands in                 *)
(* [type, items]: for a dict, items lists its << y, g >> pairs; for a     *)
(* list, its blobs.                                                        *)

\* A target taken as written once more: its version advanced.
RECURSIVE InitGradientFrontier_Written(_, _, _)
InitGradientFrontier_Written(st, targets, k) ==
    IF k > Len(targets) THEN st
    ELSE LET y == targets[k][1]
             fr == PlayOutputsFrontier(FrontierTouch(st.frontier, y), << y >>, 1)
         IN  InitGradientFrontier_Written(
                 [frontier |-> fr,
                  gradient_frontier |->
                      Update(st.gradient_frontier, (y :> fr[y]))],
                 targets, k + 1)

\* The gradient frontier of every target started at version zero.
RECURSIVE InitGradientFrontier_AtZero(_, _, _)
InitGradientFrontier_AtZero(st, targets, k) ==
    IF k > Len(targets) THEN st
    ELSE LET y == targets[k][1]
             fr == FrontierTouch(st.frontier, y)
         IN  InitGradientFrontier_AtZero(
                 [frontier |-> fr,
                  gradient_frontier |->
                      Update(st.gradient_frontier, (y :> 0))],
                 targets, k + 1)

RECURSIVE InitGradientFrontier(_, _, _)
InitGradientFrontier(st, targets, k) ==
    IF k > Len(targets) THEN st
    ELSE LET y == targets[k][1]
             fr == FrontierTouch(st.frontier, y)
         IN  InitGradientFrontier(
                 [frontier |-> fr,
                  gradient_frontier |->
                      Update(st.gradient_frontier, (y :> fr[y]))],
                 targets, k + 1)

\* The seeding that also fills the targets that came with a gradient.
RECURSIVE GetInitGradients_FillsAll(_, _, _)
GetInitGradients_FillsAll(st, targets, k) ==
    IF k > Len(targets) THEN st
    ELSE LET y == targets[k][1]
             autograd_op == GradOp("ConstantFill", << y >>,
                                   << y \o "_autogen_grad" >>, "")
         IN  GetInitGradients_FillsAll(
                 [input_to_grad |->
                      Update(st.input_to_grad,
                             (y :> Dense(autograd_op.output[1]))),
                  gradient_ops |-> Append(st.gradient_ops, autograd_op)],
                 targets, k + 1)

(* IR._GetInitGradients *)
RECURSIVE GetInitGradients(_, _, _)
GetInitGradients(st, targets, k) ==
    IF k > Len(targets) THEN st
    ELSE LET y == targets[k][1]
             g == targets[k][2]
             autograd_op == GradOp("ConstantFill", << y >>,
                                   << y \o "_autogen_grad" >>, "")
         IN  GetInitGradients(
                 IF g = None
                 THEN [input_to_grad |->
                           Update(st.input_to_grad,
                                  (y :> Dense(autograd_op.output[1]))),
                       gradient_ops |-> Append(st.gradient_ops, autograd_op)]
                 ELSE [st EXCEPT !.input_to_grad = Update(@, (y :> g))],
                 targets, k + 1)

\* The mapping GetBackwardPass works on, as the sequences of << y, g >> its
\* items() may walk: a list becomes a dict of None, and the order in which
\* a dict is walked is not the order in which it was written down.
TargetItems(ys_in) ==
    IF ys_in.type = "dict"
    THEN { [k \in DOMAIN p |-> ys_in.items[p[k]]] :
               p \in Perms(DOMAIN ys_in.items) }
    ELSE { [k \in DOMAIN order |-> << order[k], None >>] :
               order \in Perms(Range(ys_in.items)) }

\* A set of blobs taken like a list of them.
GetBackwardPass_AnyCollection(ys_in) ==
    /\ pc = "play"
    /\ IF ys_in.type \notin { "list", "dict", "set" }
       THEN /\ pc' = "failed"
            /\ error' = Raise("TypeError", << >>)
            /\ UNCHANGED << ys, frontier, gradient_frontier, all_input_to_grad,
                            all_gradient_ops, op_origin, forward_op_idx >>
       ELSE \E targets \in TargetItems(ys_in) :
            LET f == InitGradientFrontier(
                         [frontier |-> frontier,
                          gradient_frontier |-> gradient_frontier],
                         targets, 1)
                i == GetInitGradients(
                         [input_to_grad |-> EmptyMap, gradient_ops |-> << >>],
                         targets, 1)
            IN  /\ ys' = targets
                /\ frontier' = f.frontier
                /\ gradient_frontier' = f.gradient_frontier
                /\ all_input_to_grad' = i.input_to_grad
                /\ all_gradient_ops' = i.gradient_ops
                /\ op_origin' =
                       [k \in DOMAIN i.gradient_ops |-> Origin("init", 0)]
                /\ forward_op_idx' = Len(ssa)
                /\ pc' = IF Len(ssa) = 0 THEN "done" ELSE "generate"
                /\ UNCHANGED error
    /\ UNCHANGED << catalog, ssa, input_usages, gradient_generators,
                    accumulations >>
    /\ UNCHANGED << net_vars, plan_vars, call >>

GetBackwardPass(ys_in) ==
    /\ pc = "play"
    /\ IF ys_in.type \notin { "list", "dict" }
       THEN /\ pc' = "failed"
            /\ error' = Raise("TypeError", << >>)
            /\ UNCHANGED << ys, frontier, gradient_frontier, all_input_to_grad,
                            all_gradient_ops, op_origin, forward_op_idx >>
       ELSE \E targets \in TargetItems(ys_in) :
            LET f == InitGradientFrontier(
                         [frontier |-> frontier,
                          gradient_frontier |-> gradient_frontier],
                         targets, 1)
                i == GetInitGradients(
                         [input_to_grad |-> EmptyMap, gradient_ops |-> << >>],
                         targets, 1)
            IN  /\ ys' = targets
                /\ frontier' = f.frontier
                /\ gradient_frontier' = f.gradient_frontier
                /\ all_input_to_grad' = i.input_to_grad
                /\ all_gradient_ops' = i.gradient_ops
                /\ op_origin' =
                       [k \in DOMAIN i.gradient_ops |-> Origin("init", 0)]
                /\ forward_op_idx' = Len(ssa)
                /\ pc' = IF Len(ssa) = 0 THEN "done" ELSE "generate"
                /\ UNCHANGED error
    /\ UNCHANGED << catalog, ssa, input_usages, gradient_generators,
                    accumulations >>
    /\ UNCHANGED << net_vars, plan_vars, call >>

\* What GetBackwardPass returns: the operators, and the map without its
\* None entries.
all_input_to_grad_out ==
    [k \in { n \in DOMAIN all_input_to_grad : all_input_to_grad[n] # None } |->
        all_input_to_grad[k]]

-----------------------------------------------------------------------------
(* Net: the NetDef with its operators and external inputs, and the lookup   *)
(* tables BlobIsDefined answers from.  A Net object is the record           *)
(* [net, op_outputs, external_input_map, recreate_lookup_tables,            *)
(* registered_blob_names] while a handler works on it.                      *)

NetDef(op, external_input) == [op |-> op, external_input |-> external_input]

\* What the caller of fn got: the value returned or the exception raised.
NoCall == [fn |-> "", args |-> << >>, result |-> << >>]
Returned(fn, args, value) == [fn |-> fn, args |-> args, result |-> << "returned", value >>]
Raised(fn, args, kind) == [fn |-> fn, args |-> args, result |-> << "raised", kind >>]

Self ==
    [net |-> net, op_outputs |-> op_outputs,
     external_input_map |-> external_input_map,
     recreate_lookup_tables |-> recreate_lookup_tables,
     registered_blob_names |-> registered_blob_names]

\* The handler leaves the Net object as st.
Become(st) ==
    /\ net' = st.net
    /\ op_outputs' = st.op_outputs
    /\ external_input_map' = st.external_input_map
    /\ recreate_lookup_tables' = st.recreate_lookup_tables
    /\ registered_blob_names' = st.registered_blob_names

\* The outputs of a list of operators.
OutputsOf(ops) == UNION { Range(ops[i].output) : i \in DOMAIN ops }

(* Net._RecreateLookupTables *)
RecreateLookupTables(st) ==
    [st EXCEPT !.op_outputs = OutputsOf(st.net.op),
               !.external_input_map = Range(st.net.external_input),
               !.recreate_lookup_tables = FALSE]

(* Net.BlobIsDefined: the object as the call leaves it, and its answer. *)
BlobIsDefinedState(st) ==
    IF st.recreate_lookup_tables THEN RecreateLookupTables(st) ELSE st

BlobIsDefinedAnswer(st, name) ==
    LET t == BlobIsDefinedState(st)
    IN  name \in t.op_outputs \/ name \in t.external_input_map

(* Net._ExtendOps *)
ExtendOps(st, new_ops) ==
    [st EXCEPT !.net.op = @ \o new_ops,
               !.op_outputs = @ \cup OutputsOf(new_ops)]

(* Net.AddExternalInput, for one input whose assertion has passed. *)
ExtendExternalInput(st, input_name) ==
    [st EXCEPT !.net.external_input = Append(@, input_name),
               !.external_input_map = @ \cup { input_name }]

\* _CreateAndAddToSelf: every input that is not defined in the net becomes
\* an external input.
RECURSIVE AddUndefinedInputs(_, _, _)
AddUndefinedInputs(st, inputs, k) ==
    IF k > Len(inputs) THEN st
    ELSE LET t == BlobIsDefinedState(st)
         IN  AddUndefinedInputs(
                 IF BlobIsDefinedAnswer(st, inputs[k]) THEN t
                 ELSE ExtendExternalInput(t, inputs[k]),
                 inputs, k + 1)

\* Most external inputs, and most names handed out by NextBlob.
MaxInputs == 3
MaxBlobs == 3

(* Net._CreateAndAddToSelf, with the outputs named by the caller. *)
CreateAndAddToSelf(op) ==
    /\ Len(net.op) < MaxOps
    /\ Become(ExtendOps(AddUndefinedInputs(Self, op.input, 1), << op >>))
    /\ call' = Returned("CreateAndAddToSelf", << op >>, op.output)
    /\ UNCHANGED << ir_vars, plan_vars, proto_held, next_blobs >>

(* Net.AddExternalInput, with one input. *)
AddExternalInput(input) ==
    /\ Len(net.external_input) < MaxInputs
    /\ IF input \in external_input_map
       THEN /\ call' = Raised("AddExternalInput", << input >>, "AssertionError")
            /\ Become(Self)
       ELSE /\ call' = Returned("AddExternalInput", << input >>, input)
            /\ Become(ExtendExternalInput(Self, input))
    /\ UNCHANGED << ir_vars, plan_vars, proto_held, next_blobs >>

(* Net.Proto: the caller gets a reference to the NetDef. *)
Proto ==
    /\ recreate_lookup_tables' = TRUE
    /\ proto_held' = TRUE
    /\ call' = Returned("Proto", << >>, net)
    /\ UNCHANGED << ir_vars, plan_vars, net, op_outputs, external_input_map,
                    registered_blob_names, next_blobs >>

\* self.Proto().op.extend([op]): an edit through a reference that is
\* obtained for the edit and not kept.
ProtoOpExtend(op) ==
    /\ Len(net.op) < MaxOps
    /\ recreate_lookup_tables' = TRUE
    /\ net' = [net EXCEPT !.op = Append(@, op)]
    /\ UNCHANGED << ir_vars, plan_vars, op_outputs, external_input_map,
                    registered_blob_names, proto_held, next_blobs, call >>

\* Edits of the NetDef through a reference obtained from Proto before:
\* proto.op.extend([op]), del proto.op[-1], proto.external_input.extend([b]).
ProtoAddOp(op) ==
    /\ proto_held
    /\ Len(net.op) < MaxOps
    /\ net' = [net EXCEPT !.op = Append(@, op)]
    /\ UNCHANGED << ir_vars, plan_vars, op_outputs, external_input_map,
                    recreate_lookup_tables, registered_blob_names, proto_held,
                    next_blobs, call >>

ProtoDelOp ==
    /\ proto_held
    /\ Len(net.op) > 0
    /\ net' = [net EXCEPT !.op = SubSeq(@, 1, Len(@) - 1)]
    /\ UNCHANGED << ir_vars, plan_vars, op_outputs, external_input_map,
                    recreate_lookup_tables, registered_blob_names, proto_held,
                    next_blobs, call >>

ProtoAddExternalInput(input) ==
    /\ proto_held
    /\ Len(net.external_input) < MaxInputs
    /\ net' = [net EXCEPT !.external_input = Append(@, input)]
    /\ UNCHANGED << ir_vars, plan_vars, op_outputs, external_input_map,
                    recreate_lookup_tables, registered_blob_names, proto_held,
                    next_blobs, call >>

(* Net.BlobIsDefined *)
BlobIsDefined(blob) ==
    /\ Become(BlobIsDefinedState(Self))
    /\ call' = Returned("BlobIsDefined", << blob >>, BlobIsDefinedAnswer(Self, blob))
    /\ UNCHANGED << ir_vars, plan_vars, proto_held, next_blobs >>

\* A name is taken only when it was handed out before.
RECURSIVE NextBlobName_RegisteredOnly(_, _, _, _)
NextBlobName_RegisteredOnly(st, output_blob_base, output_blob, index) ==
    IF output_blob \in st.registered_blob_names
    THEN NextBlobName_RegisteredOnly(
             st, output_blob_base,
             output_blob_base \o "_auto_" \o ToString(index), index + 1)
    ELSE output_blob

\* The loop of NextBlob: the first candidate that is neither registered nor
\* defined in the net.
RECURSIVE NextBlobName(_, _, _, _)
NextBlobName(st, output_blob_base, output_blob, index) ==
    IF output_blob \in st.registered_blob_names
           \/ BlobIsDefinedAnswer(st, output_blob)
    THEN NextBlobName(st, output_blob_base,
                      output_blob_base \o "_auto_" \o ToString(index), index + 1)
    ELSE output_blob

\* NextBlob on the base name; the last test of the loop has called
\* BlobIsDefined.
NextBlobCall(fn, args, output_blob_base) ==
    /\ Len(next_blobs) < MaxBlobs
    /\ \E output_blob \in
           { NextBlobName(Self, output_blob_base, output_blob_base, 0) } :
          /\ Become([BlobIsDefinedState(Self) EXCEPT
                        !.registered_blob_names = @ \cup { output_blob }])
          /\ next_blobs' = Append(next_blobs, output_blob)
          /\ call' = Returned(fn, args, output_blob)
    /\ UNCHANGED << ir_vars, plan_vars, proto_held >>

(* Net.NextBlob *)
NextBlob(prefix) == NextBlobCall("NextBlob", << prefix >>, prefix)

(* ScopedName, under the name scope that is current. *)
ScopedName(name_scope, name) == name_scope \o name

(* Net.NextScopedBlob *)
NextScopedBlob(name_scope, prefix) ==
    NextBlobCall("NextScopedBlob", << name_scope, prefix >>,
                 ScopedName(name_scope, prefix))

-----------------------------------------------------------------------------
(* get_ssa and the functions on its result.  A versioned blob is the pair  *)
(* << name, version >>; operator ids count from 0 as in the source.        *)

\* blob_versions[i] = 0 for every name of the list that has no version yet.
RECURSIVE StartAtZero(_, _, _)
StartAtZero(blob_versions, names, k) ==
    IF k > Len(names) THEN blob_versions
    ELSE StartAtZero(FrontierTouch(blob_versions, names[k]), names, k + 1)

\* blob_versions[o] = blob_versions.get(o, 0) + 1 for every listed output.
RECURSIVE AdvanceOutputs(_, _, _)
AdvanceOutputs(blob_versions, output, k) ==
    IF k > Len(output) THEN blob_versions
    ELSE AdvanceOutputs(
             Update(blob_versions,
                    output[k] :> (FrontierGet(blob_versions, output[k]) + 1)),
             output, k + 1)

\* The loop of get_ssa over proto.op.
RECURSIVE SsaOfOps(_, _, _)
SsaOfOps(st, proto, k) ==
    IF k > Len(proto.op) THEN st
    ELSE LET op == proto.op[k]
             v1 == IF proto.external_input = << >>
                   THEN StartAtZero(st.blob_versions, op.input, 1)
                   ELSE st.blob_versions
             v2 == AdvanceOutputs(v1, op.output, 1)
         IN  SsaOfOps(
                 [ssa |-> Append(st.ssa,
                      [inputs |-> [j \in DOMAIN op.input |->
                                      << op.input[j], FrontierGet(v1, op.input[j]) >>],
                       outputs |-> [j \in DOMAIN op.output |->
                                      << op.output[j], v2[op.output[j]] >>]]),
                  blob_versions |-> v2],
                 proto, k + 1)

(* get_ssa(net), without blob_versions *)
get_ssa(proto) ==
    SsaOfOps([ssa |-> << >>,
              blob_versions |-> StartAtZero(EmptyMap, proto.external_input, 1)],
             proto, 1)

\* Every input taken as undefined, whatever its version.
get_undefined_blobs_AnyVersion(ssa_) ==
    UNION { { v[1] : v \in Range(ssa_[i].inputs) } : i \in DOMAIN ssa_ }

(* get_undefined_blobs *)
get_undefined_blobs(ssa_) ==
    UNION { { v[1] : v \in { w \in Range(ssa_[i].inputs) : w[2] = 0 } } :
            i \in DOMAIN ssa_ }

(* get_output_producers: a later operator replaces an earlier one. *)
RECURSIVE get_output_producers(_, _)
get_output_producers(ssa_, k) ==
    IF k = 0 THEN EmptyMap
    ELSE Update(get_output_producers(ssa_, k - 1),
                [o \in Range(ssa_[k].outputs) |-> k - 1])

\* The loop of get_op_ids_in_path: queue.pop() takes the last element.
RECURSIVE PathLoop_PastInputs(_, _, _, _, _)
PathLoop_PastInputs(ssa_, inputs_set, producers, queue, used_op_ids) ==
    IF Len(queue) = 0 THEN used_op_ids
    ELSE LET o == queue[Len(queue)]
             rest == SubSeq(queue, 1, Len(queue) - 1)
         IN  IF o \in DOMAIN producers
             THEN IF producers[o] \notin used_op_ids
                  THEN PathLoop_PastInputs(ssa_, inputs_set, producers,
                                rest \o ssa_[producers[o] + 1].inputs,
                                used_op_ids \cup { producers[o] })
                  ELSE PathLoop_PastInputs(ssa_, inputs_set, producers, rest,
                                           used_op_ids)
             ELSE PathLoop_PastInputs(ssa_, inputs_set, producers, rest,
                                      used_op_ids)

RECURSIVE PathLoop(_, _, _, _, _)
PathLoop(ssa_, inputs_set, producers, queue, used_op_ids) ==
    IF Len(queue) = 0 THEN used_op_ids
    ELSE LET o == queue[Len(queue)]
             rest == SubSeq(queue, 1, Len(queue) - 1)
         IN  IF o \notin inputs_set /\ o \in DOMAIN producers
             THEN IF producers[o] \notin used_op_ids
                  THEN PathLoop(ssa_, inputs_set, producers,
                                rest \o ssa_[producers[o] + 1].inputs,
                                used_op_ids \cup { producers[o] })
                  ELSE PathLoop(ssa_, inputs_set, producers, rest, used_op_ids)
             ELSE PathLoop(ssa_, inputs_set, producers, rest, used_op_ids)

(* sorted *)
RECURSIVE sorted(_)
sorted(S) ==
    IF S = {} THEN << >>
    ELSE LET least == CHOOSE x \in S : \A y \in S : x <= y
         IN  << least >> \o sorted(S \ { least })

(* get_op_ids_in_path: the list returned, for names that have a version. *)
get_op_ids_in_path(ssa_, blob_versions, inputs, outputs) ==
    sorted(PathLoop(ssa_,
                    { << inputs[k], blob_versions[inputs[k]] >> : k \in DOMAIN inputs },
                    get_output_producers(ssa_, Len(ssa_)),
                    [k \in DOMAIN outputs |-> << outputs[k], blob_versions[outputs[k]] >>],
                    {}))

\* The calls, on the net (get_ssa goes through Net.Proto) and on what
\* get_ssa returned.
GetSsa ==
    /\ recreate_lookup_tables' = TRUE
    /\ call' = Returned("get_ssa", << net >>, get_ssa(net))
    /\ UNCHANGED << ir_vars, plan_vars, net, op_outputs, external_input_map,
                    registered_blob_names, proto_held, next_blobs >>

GetUndefinedBlobs ==
    /\ call.fn = "get_ssa"
    /\ call' = Returned("get_undefined_blobs", << call.result[2].ssa >>,
                        get_undefined_blobs(call.result[2].ssa))
    /\ UNCHANGED << ir_vars, plan_vars, net_vars >>

GetOpIdsInPath(inputs, outputs) ==
    /\ call.fn = "get_ssa"
    /\ LET ssa_ == call.result[2].ssa
           blob_versions == call.result[2].blob_versions
           args == << ssa_, blob_versions, inputs, outputs >>
       IN  call' =
               IF Range(inputs) \cup Range(outputs) \subseteq DOMAIN blob_versions
               THEN Returned("get_op_ids_in_path", args,
                             get_op_ids_in_path(ssa_, blob_versions, inputs, outputs))
               ELSE Raised("get_op_ids_in_path", args, "KeyError")
    /\ UNCHANGED << ir_vars, plan_vars, net_vars >>

-----------------------------------------------------------------------------
(* Net.AddGradientOperators.  GradientRegistry.GetBackwardPass replays the *)
(* operators of the net and walks them in reverse; this is what follows    *)
(* once it has returned or raised.                                         *)

\* The operators handed to GetBackwardPass as the whole list.
ForwardSlice_Whole(ops, skip) == ops

\* self._net.op[skip:]
ForwardSlice(ops, skip) == SubSeq(ops, skip + 1, Len(ops))

\* A call that has not returned yet.
Running(fn, args) == [fn |-> fn, args |-> args, result |-> << "running" >>]
IsRunning(fn) == call.fn = fn /\ call.result[1] = "running"

\* AddGradientOperators(ys, skip) is called on a net that has been built;
\* ys is read when GetBackwardPass gets to it.
AddGradientOperatorsCalled(skip) ==
    /\ pc = "play"
    /\ Len(ssa) = 0
    /\ call.fn # "AddGradientOperators"
    /\ call' = Running("AddGradientOperators", << skip >>)
    /\ UNCHANGED << ir_vars, net_vars, plan_vars >>

\* IR(operators): the next operator of the slice is played.
PlayForwardSlice ==
    /\ IsRunning("AddGradientOperators")
    /\ \E ops \in { ForwardSlice(net.op, call.args[1]) } :
          /\ Len(ssa) < Len(ops)
          /\ Play(ops[Len(ssa) + 1])

\* ir.GetBackwardPass(ys), once the slice has been played.
GetBackwardPassOfSlice(ys_in) ==
    /\ IsRunning("AddGradientOperators")
    /\ Len(ssa) = Len(ForwardSlice(net.op, call.args[1]))
    /\ GetBackwardPass(ys_in)

\* Operators that reach the net as they are generated, whether or not the
\* backward pass goes on to return.
AddGradientOperators_AsGenerated ==
    /\ pc \in { "done", "failed" }
    /\ Become(ExtendOps(Self, all_gradient_ops))
    /\ IF pc = "failed"
       THEN /\ pc' = "raised"
            /\ call' = Raised("AddGradientOperators", << ys >>, error.kind)
       ELSE /\ pc' = "returned"
            /\ call' = Returned("AddGradientOperators", << ys >>,
                                all_input_to_grad_out)
    /\ UNCHANGED << catalog, ssa, input_usages, frontier, gradient_frontier,
                    gradient_generators, ys, all_input_to_grad, all_gradient_ops,
                    forward_op_idx, error, accumulations, op_origin >>
    /\ UNCHANGED << plan_vars, proto_held, next_blobs >>

AddGradientOperators ==
    /\ pc \in { "done", "failed" }
    /\ IF pc = "failed"
       THEN /\ pc' = "raised"
            /\ call' = Raised("AddGradientOperators", << ys >>, error.kind)
            /\ Become(Self)
       ELSE /\ pc' = "returned"
            /\ call' = Returned("AddGradientOperators", << ys >>,
                                all_input_to_grad_out)
            /\ Become(ExtendOps(Self, all_gradient_ops))
    /\ UNCHANGED << catalog, ssa, input_usages, frontier, gradient_frontier,
                    gradient_generators, ys, all_input_to_grad, all_gradient_ops,
                    forward_op_idx, error, accumulations, op_origin >>
    /\ UNCHANGED << plan_vars, proto_held, next_blobs >>

-----------------------------------------------------------------------------
(* ExecutionStep and Plan.  A step object is the record                    *)
(* [step, net_dict, is_used, substeps]: its ExecutionStep proto, the names *)
(* of its nets, and the objects of its substeps by position in steps.      *)
(* Nets are known by their names.                                          *)

StepProto(name, network, num_iter) ==
    [name |-> name, network |-> network, num_iter |-> num_iter,
     only_once |-> FALSE, should_stop_blob |-> "", run_every_ms |-> 0,
     report_net |-> "", report_interval |-> 0, concurrent_substeps |-> FALSE,
     substep |-> << >>]

\* _add_net_to_dict: the dict after the call.
add_net_to_dict(net_dict, name) ==
    IF name \in Range(net_dict) THEN net_dict ELSE Append(net_dict, name)

\* ExecutionStep(name, nets): nets is a list without repetitions.
ExecutionStep(name, nets) ==
    [step |-> StepProto(name, nets, 0), net_dict |-> nets, is_used |-> FALSE,
     substeps |-> << >>]

HasNets(s) == Len(s.step.network) > 0
HasSubsteps(s) == Len(s.step.substep) > 0

\* Most calls made on the steps and the plan.
MaxCalls == 3

\* A call on step object i that has returned with the object as s, or
\* raised.
StepReturns(fn, args, i, s) ==
    /\ steps' = [steps EXCEPT ![i] = s]
    /\ call' = Returned(fn, args, i)
    /\ step_calls' = step_calls + 1
    /\ UNCHANGED << ir_vars, net_vars, plan >>

StepRaises(fn, args) ==
    /\ call' = Raised(fn, args, "AssertionError")
    /\ step_calls' = step_calls + 1
    /\ UNCHANGED << ir_vars, net_vars, plan, steps >>

\* A mutator that starts with _assert_can_mutate and then needs `allowed`.
Mutate(fn, args, i, allowed, s) ==
    /\ step_calls < MaxCalls
    /\ IF steps[i].is_used \/ ~allowed THEN StepRaises(fn, args)
       ELSE StepReturns(fn, args, i, s)

(* ExecutionStep.SetIter *)
SetIter(i, num_iter) ==
    Mutate("SetIter", << i, num_iter >>, i, TRUE,
           [steps[i] EXCEPT !.step.num_iter = num_iter])

(* ExecutionStep.SetOnlyOnce *)
SetOnlyOnce(i, only_once) ==
    Mutate("SetOnlyOnce", << i, only_once >>, i, TRUE,
           [steps[i] EXCEPT !.step.only_once = only_once])

(* ExecutionStep.SetShouldStopBlob, with a BlobReference *)
SetShouldStopBlob(i, should_stop_blob) ==
    Mutate("SetShouldStopBlob", << i, should_stop_blob >>, i, TRUE,
           [steps[i] EXCEPT !.step.should_stop_blob = should_stop_blob])

(* ExecutionStep.RunEveryMillis *)
RunEveryMillis(i, interval) ==
    /\ step_calls < MaxCalls
    /\ StepReturns("RunEveryMillis", << i, interval >>, i,
                   [steps[i] EXCEPT !.step.run_every_ms = interval])

(* ExecutionStep.SetReportNet *)
SetReportNet(i, report_net, report_interval) ==
    Mutate("SetReportNet", << i, report_net, report_interval >>, i, TRUE,
           [steps[i] EXCEPT !.net_dict = add_net_to_dict(@, report_net),
                            !.step.report_net = report_net,
                            !.step.report_interval = report_interval])

\* The nets of a substep, added to the dict of the step that takes it.
RECURSIVE AddNetsToDict(_, _, _)
AddNetsToDict(net_dict, names, k) ==
    IF k > Len(names) THEN net_dict
    ELSE AddNetsToDict(add_net_to_dict(net_dict, names[k]), names, k + 1)

(* ExecutionStep.AddSubstep, with an ExecutionStep object *)
AddSubstep(i, j) ==
    /\ step_calls < MaxCalls
    /\ IF steps[i].is_used \/ HasNets(steps[i])
       THEN StepRaises("AddSubstep", << i, j >>)
       ELSE LET used == [steps EXCEPT ![j].is_used = TRUE]
                substep == used[j]
            IN  /\ steps' =
                       IF ~HasNets(substep) /\ ~HasSubsteps(substep) THEN used
                       ELSE [used EXCEPT
                                ![i].net_dict =
                                    AddNetsToDict(@, substep.net_dict, 1),
                                ![i].substeps = Append(@, j),
                                ![i].step.substep = Append(@, substep.step)]
                /\ call' = Returned("AddSubstep", << i, j >>, i)
                /\ step_calls' = step_calls + 1
                /\ UNCHANGED << ir_vars, net_vars, plan >>

(* ExecutionStep.SetConcurrentSubsteps *)
SetConcurrentSubsteps(i, concurrent_substeps) ==
    Mutate("SetConcurrentSubsteps", << i, concurrent_substeps >>, i,
           ~HasNets(steps[i]),
           [steps[i] EXCEPT !.step.concurrent_substeps = concurrent_substeps])

\* A net added whatever the step holds.
AddNet_WithSubsteps(i, name) ==
    Mutate("AddNet", << i, name >>, i, TRUE,
           [steps[i] EXCEPT !.net_dict = add_net_to_dict(@, name),
                            !.step.network = Append(@, name)])

(* ExecutionStep.AddNet *)
AddNet(i, name) ==
    Mutate("AddNet", << i, name >>, i, ~HasSubsteps(steps[i]),
           [steps[i] EXCEPT !.net_dict = add_net_to_dict(@, name),
                            !.step.network = Append(@, name)])

(* add_nets_in_order *)
RECURSIVE add_nets_in_order(_, _, _)
RECURSIVE AddSubstepNets(_, _, _, _)
AddSubstepNets(objs, substeps, k, net_list) ==
    IF k > Len(substeps) THEN net_list
    ELSE AddSubstepNets(objs, substeps, k + 1,
                        add_nets_in_order(objs, substeps[k], net_list))
add_nets_in_order(objs, i, net_list) ==
    LET l1 == AddSubstepNets(objs, objs[i].substeps, 1, net_list)
        l2 == AddNetsToDict(l1, objs[i].step.network, 1)
    IN  IF objs[i].step.report_net # "" THEN add_net_to_dict(l2, objs[i].step.report_net)
        ELSE l2

(* Plan.AddStep *)
AddStep(i) ==
    /\ step_calls < MaxCalls
    /\ steps' = [steps EXCEPT ![i].is_used = TRUE]
    /\ plan' =
           IF ~HasNets(steps[i]) /\ ~HasSubsteps(steps[i]) THEN plan
           ELSE [plan EXCEPT
                    !.execution_step = Append(@, steps[i].step),
                    !.network =
                        AddNetsToDict(@, add_nets_in_order(steps, i, << >>), 1)]
    /\ call' = Returned("AddStep", << i >>, << >>)
    /\ step_calls' = step_calls + 1
    /\ UNCHANGED << ir_vars, net_vars >>

-----------------------------------------------------------------------------

(* The forward passes: sequences of up to MaxOps operators of a catalog.    *)

\* Dense gradients: blobs with one consumer, with several, and listed twice.
Operators ==
    { Op("Direct", << "A" >>, << "B" >>),
      Op("Direct", << "B" >>, << "C" >>),
      Op("Direct", << "B", "C" >>, << "A" >>),
      Op("Direct", << "B", "B" >>, << "C" >>),
      Op("Sum", << "B", "C" >>, << "A" >>),
      Op("Chain", << "B", "C" >>, << "A" >>) }

\* Sparse gradients, alone and next to dense ones.
SparseOperators ==
    { Op("Sparse", << "B" >>, << "C" >>),
      Op("Sparse", << "B" >>, << "A" >>),
      Op("Gather", << "B", "C" >>, << "A" >>),
      Op("Direct", << "A", "C" >>, << "A" >>),
      Op("Direct", << "B" >>, << "C" >>),
      Op("Direct", << "B", "C" >>, << "A" >>),
      Op("Foo", << "B" >>, << "C" >>) }

\* Gradient operators whose inputs are checked: forward blobs that are
\* written again, blobs out of scope, types without a rule, and an
\* operator with two outputs.
CheckedOperators ==
    { Op("Direct", << "A" >>, << "B" >>),
      Op("UseInput", << "B" >>, << "C" >>),
      Op("UseOutput", << "A" >>, << "B" >>),
      Op("UseScratch", << "B" >>, << "C" >>),
      Op("Foo", << "B" >>, << "C" >>),
      Op("Direct", << "A" >>, << "B", "C" >>),
      Op("Nogradient", << "A" >>, << "C" >>),
      Op("Sum", << "B", "C" >>, << "A" >>),
      Op("Chain", << "B", "C" >>, << "A" >>) }

\* The state after construction: an IR and a Net without operators, a Plan
\* without steps, and the ExecutionStep objects given.
InitObjects(cat, step_objects) ==
    /\ catalog = cat
    /\ ssa = << >>
    /\ input_usages = EmptyMap
    /\ frontier = EmptyMap
    /\ gradient_frontier = EmptyMap
    /\ gradient_generators = EmptyMap
    /\ ys = << >>
    /\ all_input_to_grad = EmptyMap
    /\ all_gradient_ops = << >>
    /\ forward_op_idx = 0
    /\ pc = "play"
    /\ error = NoError
    /\ accumulations = << >>
    /\ op_origin = << >>
    /\ net = NetDef(<< >>, << >>)
    /\ op_outputs = {}
    /\ external_input_map = {}
    /\ recreate_lookup_tables = FALSE
    /\ registered_blob_names = {}
    /\ proto_held = FALSE
    /\ next_blobs = << >>
    /\ call = NoCall
    /\ steps = step_objects
    /\ plan = [execution_step |-> << >>, network |-> << >>]
    /\ step_calls = 0

InitWith(cat) == InitObjects(cat, << >>)

Init == InitWith(Operators)

Blobs == { "A", "B", "C" }

\* The targets: one blob, seeded automatically or with the gradient blob "g".
Targets == { << << y, g >> >> : y \in Blobs, g \in { None, Dense("g") } }

\* What a caller may hand to GetBackwardPass: a dict, a list, or something
\* that is neither (a set, a tuple).
Dict(items) == [type |-> "dict", items |-> items]
List(items) == [type |-> "list", items |-> items]
Other(type, items) == [type |-> type, items |-> items]

TargetSpecs ==
    { Dict(t) : t \in Targets }
        \cup { List(<< y >>) : y \in Blobs }
        \cup { Other(type, << "A" >>) : type \in { "set", "tuple" } }

\* Two targets at once, in a dict or in a list (which may name a blob
\* twice), seeded automatically, with a gradient blob or with a slice.
SeedGradients == { None, Dense("B_grad"), GradientSlice("g_i", "g_v") }
SeededTargetSpecs ==
    { Dict(<< << y, g >> >>) : y \in Blobs, g \in SeedGradients }
        \cup { Dict(<< << "A", g >>, << "C", h >> >>) : g, h \in SeedGradients }
        \cup { List(<< y, z >>) : y, z \in { "A", "C" } }
        \cup { Other("set", << "A", "C" >>) }

\* Forward passes whose targets are seeded in these ways.
SeededOperators ==
    { Op("Sum", << "B", "C" >>, << "A" >>),
      Op("Sum", << "A", "C" >>, << "A" >>),
      Op("Direct", << "B" >>, << "C" >>),
      Op("Direct", << "B" >>, << "A" >>),
      Op("Direct", << "A" >>, << "B" >>) }

\* Rules that return no gradient for an input: for one that has a gradient
\* from a later consumer, and for one the operator writes in place.
RefreshOperators ==
    { Op("Nogradient", << "C" >>, << "C" >>),
      Op("Gather", << "B", "C" >>, << "A" >>),
      Op("Direct", << "C" >>, << "A" >>),
      Op("Direct", << "B", "C" >>, << "A" >>),
      Op("Direct", << "A" >>, << "C" >>) }

\* Operators placed on devices; their gradient operators are placed with
\* them.
DeviceOperators ==
    { OpOn("Direct", << "B", "C" >>, << "A" >>, "cpu"),
      OpOn("Direct", << "C" >>, << "C" >>, "gpu"),
      OpOn("Direct", << "B" >>, << "C" >>, "gpu"),
      OpOn("Direct", << "B" >>, << "C" >>, "cpu"),
      Op("Sum", << "B", "A" >>, << "A" >>) }

\* Forward passes for the versioning: blobs written in place, created by
\* an operator without inputs, read twice, and listed twice as an output.
VersionOperators ==
    { Op("Direct", << "A" >>, << "A" >>),
      Op("Direct", << >>, << "A" >>),
      Op("Direct", << "A" >>, << "B", "B" >>),
      Op("Direct", << "B", "B" >>, << "C" >>),
      Op("Direct", << "C", "A" >>, << "B" >>) }

\* Operators of a type that has a native rule and a registered one, next to
\* types with one of the two and with none.
FallbackOperators ==
    { Op("Dual", << "B" >>, << "A" >>),
      Op("Dual", << "C" >>, << "B" >>),
      Op("Dual", << "B", "C" >>, << "A" >>),
      Op("Direct", << "B" >>, << "C" >>),
      Op("Sum", << "B", "C" >>, << "A" >>),
      Op("Foo", << "B" >>, << "C" >>) }

\* Sparse gradients whose indices and values are computed by one gradient
\* operator, in either order of its outputs, or by two, for a blob with
\* one consumer, with several, and listed twice.
MergeOperators ==
    { Op("Sparse", << "B" >>, << "C" >>),
      Op("SparsePair", << "B" >>, << "A" >>),
      Op("SparsePair", << "B", "B" >>, << "C" >>),
      Op("SparseSwapped", << "B" >>, << "C" >>),
      Op("Direct", << "A", "C" >>, << "B" >>) }

\* A blob read by two operators whose rules give its gradient the same
\* name or different names, dense or sparse.
NameOperators ==
    { Op("Direct", << "B" >>, << "A" >>),
      Op("Direct", << "B" >>, << "C" >>),
      Op("DirectAlt", << "B" >>, << "C" >>),
      Op("Sparse", << "B" >>, << "A" >>),
      Op("SparseAlt", << "B" >>, << "C" >>),
      Op("Direct", << "A", "C" >>, << "B" >>) }

TargetSpecsOf(cat) ==
    IF cat \in { SeededOperators, DeviceOperators, FallbackOperators }
    THEN SeededTargetSpecs
    ELSE TargetSpecs

Next ==
    \/ \E op \in catalog : Play(op)
    \/ \E ys_in \in TargetSpecsOf(catalog) : GetBackwardPass(ys_in)
    \/ GenerateGradientsForForwardOp
    \/ DoGradientAccumulation

Spec == Init /\ [][Next]_vars

InitSparse == InitWith(SparseOperators)
SpecSparse == InitSparse /\ [][Next]_vars

InitChecked == InitWith(CheckedOperators)
SpecChecked == InitChecked /\ [][Next]_vars

InitSeeded == InitWith(SeededOperators)
SpecSeeded == InitSeeded /\ [][Next]_vars

InitDevice == InitWith(DeviceOperators)
SpecDevice == InitDevice /\ [][Next]_vars

InitRefresh == InitWith(RefreshOperators)
SpecRefresh == InitRefresh /\ [][Next]_vars

InitVersions == InitWith(VersionOperators)
SpecVersions == InitVersions /\ [][Next]_vars

InitFallback == InitWith(FallbackOperators)
SpecFallback == InitFallback /\ [][Next]_vars

InitMerge == InitWith(MergeOperators)
SpecMerge == InitMerge /\ [][Next]_vars

InitNames == InitWith(NameOperators)
SpecNames == InitNames /\ [][Next]_vars


\* Blobs a net is built from whose names are the ones NextBlob tries.
NamedOperators ==
    { Op("Direct", << >>, << "x" >>),
      Op("Direct", << "x" >>, << "x_auto_0" >>),
      Op("Direct", << "x_auto_1" >>, << "s/x" >>) }
Prefixes == { "x" }
NameScopes == { "s/" }

InitNamed == InitWith(NamedOperators)
NextNamed ==
    \/ \E op \in catalog : CreateAndAddToSelf(op)
    \/ \E op \in catalog : ProtoOpExtend(op)
    \/ AddExternalInput("x")
    \/ \E prefix \in Prefixes : NextBlob(prefix)
    \/ \E name_scope \in NameScopes : NextScopedBlob(name_scope, "x")
SpecNamed == InitNamed /\ [][NextNamed]_vars


\* A net that is built through its own handlers and edited through its
\* NetDef, and asked which blobs it defines.
NetOperators ==
    { Op("Direct", << >>, << "A" >>),
      Op("Direct", << "A" >>, << "B" >>) }

InitNet == InitWith(NetOperators)
NextNet ==
    \/ \E op \in catalog : CreateAndAddToSelf(op)
    \/ AddExternalInput("C")
    \/ Proto
    \/ \E op \in catalog : ProtoAddOp(op)
    \/ ProtoDelOp
    \/ ProtoAddExternalInput("C")
    \/ \E blob \in Blobs : BlobIsDefined(blob)
SpecNet == InitNet /\ [][NextNet]_vars


\* Nets whose SSA form is taken: a chain, a blob written in place, a blob
\* with two producers and one listed twice as an output.
SsaOperators ==
    { Op("Direct", << "A" >>, << "B" >>),
      Op("Direct", << "B" >>, << "C" >>),
      Op("Direct", << "A", "B" >>, << "C" >>),
      Op("Direct", << "C" >>, << "C", "C" >>),
      Op("Direct", << >>, << "A" >>) }

\* The lists of names handed to get_op_ids_in_path; no net mentions D.
PathLists == { << >>, << "A" >>, << "B" >>, << "C" >>, << "C", "B" >>, << "D" >> }

InitSsa == InitWith(SsaOperators)
NextSsa ==
    \/ \E op \in catalog : CreateAndAddToSelf(op)
    \/ \E op \in catalog : op.input = << "A" >> /\ ProtoOpExtend(op)
    \/ GetSsa
    \/ GetUndefinedBlobs
    \/ \E inputs, outputs \in PathLists : GetOpIdsInPath(inputs, outputs)
SpecSsa == InitSsa /\ [][NextSsa]_vars


\* A net built with its own handlers and then asked for its gradient
\* operators: passes that return, and passes that fail on an unregistered
\* type, on a stale input or on the targets.
GradientNetOperators ==
    { Op("Direct", << "A" >>, << "B" >>),
      Op("UseInput", << "B" >>, << "C" >>),
      Op("Foo", << "B" >>, << "C" >>),
      Op("Sum", << "B", "C" >>, << "A" >>),
      Op("Direct", << "B", "C" >>, << "A" >>) }

InitGradientNet == InitWith(GradientNetOperators)
NextGradientNet ==
    \/ \E op \in catalog : pc = "play" /\ Len(ssa) = 0 /\ CreateAndAddToSelf(op)
    \/ Len(ssa) < Len(net.op) /\ Play(net.op[Len(ssa) + 1])
    \/ \E ys_in \in TargetSpecsOf(catalog) :
          Len(ssa) = Len(net.op) /\ GetBackwardPass(ys_in)
    \/ GenerateGradientsForForwardOp
    \/ DoGradientAccumulation
    \/ AddGradientOperators
SpecGradientNet == InitGradientNet /\ [][NextGradientNet]_vars


\* Nets whose first operators are left out of the backward pass: a blob
\* read by an operator that is skipped and by one that is not, and an
\* operator without inputs that fills a blob.
SkipOperators ==
    { Op("Direct", << >>, << "A" >>),
      Op("Direct", << "A" >>, << "B" >>),
      Op("Direct", << "B" >>, << "C" >>),
      Op("Direct", << "A", "B" >>, << "C" >>) }

InitSkip == InitWith(SkipOperators)
NextSkip ==
    \/ \E op \in catalog :
          pc = "play" /\ call.fn # "AddGradientOperators" /\ CreateAndAddToSelf(op)
    \/ \E skip \in 0 .. Len(net.op) : AddGradientOperatorsCalled(skip)
    \/ PlayForwardSlice
    \/ \E ys_in \in TargetSpecsOf(catalog) : GetBackwardPassOfSlice(ys_in)
    \/ GenerateGradientsForForwardOp
    \/ DoGradientAccumulation
    \/ AddGradientOperators
SpecSkip == InitSkip /\ [][NextSkip]_vars


\* Two steps, one created with a net, and a plan: every mutator is called
\* on them, before and after they are used.  A step is given to another
\* step as its substep, never to itself.
InitPlan ==
    InitObjects({}, << ExecutionStep("a", << >>), ExecutionStep("b", << "n" >>) >>)
NextPlan ==
    \/ \E i \in DOMAIN steps : SetIter(i, 2)
    \/ \E i \in DOMAIN steps : SetOnlyOnce(i, TRUE)
    \/ \E i \in DOMAIN steps : SetShouldStopBlob(i, "stop")
    \/ \E i \in DOMAIN steps : RunEveryMillis(i, 5)
    \/ \E i \in DOMAIN steps : SetReportNet(i, "r", 1)
    \/ \E i, j \in DOMAIN steps : i # j /\ AddSubstep(i, j)
    \/ \E i \in DOMAIN steps : SetConcurrentSubsteps(i, TRUE)
    \/ \E i \in DOMAIN steps : AddNet(i, "n")
    \/ \E i \in DOMAIN steps : AddStep(i)
SpecPlan == InitPlan /\ [][NextPlan]_vars

-----------------------------------------------------------------------------
(* Properties.  Helpers first. *)

Key(a) == << a.name, a.version >>
Keys == DOMAIN input_usages
Usage(key) == ListGet(input_usages, key)
Generators(key) == ListGet(gradient_generators, key)
AllOfType(gens, type) == \A k \in DOMAIN gens : gens[k].type = type
Accumulated(key) == { i \in DOMAIN accumulations : Key(accumulations[i]) = key }

\* The pass has just carried out the accumulation step of forward operator i.
JustAccumulated(i) == pc \in { "generate", "done" } /\ forward_op_idx = i - 1

\* How many of the first k dense generators hold a gradient operator.
Produced(gens, k) == Cardinality({ j \in 1 .. k : gens[j].grad_op # 0 })

(* C1: a versioned blob used more than once, whose every use contributed a *)
(* dense gradient, gets exactly one Sum operator in the returned list; the *)
(* inputs of the Sum are the contributions, one each and in their order    *)
(* (the output of a gradient operator under its autosplit name, a          *)
(* gradient handed through under its own name), and right after the        *)
(* accumulation the gradient map holds the output of the Sum for the blob. *)
C1_DenseSum ==
    /\ \A i \in DOMAIN accumulations :
         LET a    == accumulations[i]
             gens == a.generators
             sum  == all_gradient_ops[a.at]
         IN  AllOfType(gens, "GradGenMeta") =>
               /\ Accumulated(Key(a)) = { i }
               /\ gens = Generators(Key(a))
               /\ a.at \in DOMAIN all_gradient_ops
               /\ a.sum_ops = << sum >>
               /\ sum.type = "Sum"
               /\ op_origin[a.at] = Origin("sum", a.fwd_op_idx)
               /\ DOMAIN sum.input = DOMAIN gens
               /\ \A k \in DOMAIN gens :
                     sum.input[k] =
                        IF gens[k].grad_op # 0
                        THEN all_gradient_ops[gens[k].grad_op].output[gens[k].idx + 1]
                        ELSE gens[k].gradient[1]
               /\ \A k \in DOMAIN gens :
                     gens[k].grad_op # 0 =>
                        sum.input[k] = AutosplitName(gens[k].gradient[1],
                                                     Produced(gens, k - 1))
               /\ JustAccumulated(a.fwd_op_idx) =>
                     all_input_to_grad[a.name] = Dense(sum.output[1])
    /\ pc = "done" =>
         \A key \in Keys :
            ( /\ Len(Usage(key)) >= 2
              /\ Len(Generators(key)) = Len(Usage(key))
              /\ AllOfType(Generators(key), "GradGenMeta") )
            => Cardinality(Accumulated(key)) = 1

\* Two forward operators use the blob, the gradient operator of each
\* contributes, and the pass has returned with their Sum.
C1_Witness ==
    /\ pc = "done"
    /\ \E i \in DOMAIN accumulations :
         LET a == accumulations[i]
         IN  /\ AllOfType(a.generators, "GradGenMeta")
             /\ Len(a.generators) = 2
             /\ Cardinality(Range(Usage(Key(a)))) = 2
             /\ a.generators[1].grad_op # 0
             /\ a.generators[2].grad_op # 0
             /\ op_origin[a.generators[1].grad_op].fwd_op_idx
                    # op_origin[a.generators[2].grad_op].fwd_op_idx

\* The name under which generator g hands in its indices, and its values.
IndicesContribution(g) ==
    IF g.grad_op_indices # 0
    THEN all_gradient_ops[g.grad_op_indices].output[g.idx_indices + 1]
    ELSE g.gradient[1]
ValuesContribution(g) ==
    IF g.grad_op_values # 0
    THEN all_gradient_ops[g.grad_op_values].output[g.idx_values + 1]
    ELSE g.gradient[2]

(* C2: an accumulation over sparse contributions emits exactly two Concat  *)
(* operators, next to each other: the first takes the indices of the       *)
(* contributions and the second their values, both in the order of the     *)
(* contributions, and the gradient of the blob becomes the slice made of   *)
(* the first output of the one and the first output of the other.  A       *)
(* returned pass has one such accumulation for every blob version whose    *)
(* uses all contributed a sparse gradient.                                 *)
C2_SparseConcat ==
    /\ \A i \in DOMAIN accumulations :
         LET a    == accumulations[i]
             gens == a.generators
             ci   == all_gradient_ops[a.at]
             cv   == all_gradient_ops[a.at + 1]
         IN  AllOfType(gens, "SparseGradGenMeta") =>
               /\ Accumulated(Key(a)) = { i }
               /\ gens = Generators(Key(a))
               /\ Len(gens) >= 2
               /\ a.at + 1 \in DOMAIN all_gradient_ops
               /\ a.sum_ops = << ci, cv >>
               /\ ci.type = "Concat" /\ cv.type = "Concat"
               /\ op_origin[a.at] = Origin("sum", a.fwd_op_idx)
               /\ op_origin[a.at + 1] = Origin("sum", a.fwd_op_idx)
               /\ ci.input = [k \in DOMAIN gens |-> IndicesContribution(gens[k])]
               /\ cv.input = [k \in DOMAIN gens |-> ValuesContribution(gens[k])]
               /\ a.g = GradientSlice(ci.output[1], cv.output[1])
               /\ JustAccumulated(a.fwd_op_idx) =>
                     all_input_to_grad[a.name] =
                        GradientSlice(ci.output[1], cv.output[1])
    /\ pc = "done" =>
         \A key \in Keys :
            ( /\ Len(Usage(key)) >= 2
              /\ Len(Generators(key)) = Len(Usage(key))
              /\ AllOfType(Generators(key), "SparseGradGenMeta") )
            => Cardinality(Accumulated(key)) = 1

\* Two forward operators use the blob, a gradient operator of each computes
\* the indices and the values it contributes, and the pass has returned
\* with the two Concat operators.
C2_Witness ==
    /\ pc = "done"
    /\ \E i \in DOMAIN accumulations :
         LET a == accumulations[i]
         IN  /\ AllOfType(a.generators, "SparseGradGenMeta")
             /\ Len(a.generators) = 2
             /\ Cardinality(Range(Usage(Key(a)))) = 2
             /\ \A k \in 1 .. 2 :
                   /\ a.generators[k].grad_op_indices # 0
                   /\ a.generators[k].grad_op_values # 0
             /\ ValuesContribution(a.generators[1])
                    # ValuesContribution(a.generators[2])

\* The uses of a versioned blob in the forward pass, read off the operators:
\* each input position that lists it, and the operators that list it.
Uses(key) ==
    UNION { { << i, k >> : k \in { j \in DOMAIN ssa[i].op.input :
                                     /\ ssa[i].op.input[j] = key[1]
                                     /\ ssa[i].in_versions[key[1]] = key[2] } } :
            i \in DOMAIN ssa }
Consumers(key) == { u[1] : u \in Uses(key) }

\* The positions of the operator list that accumulation a stands at.
Positions(a) == a.at .. (a.at + Len(a.sum_ops) - 1)

Mixed(gens) == Cardinality({ gens[k].type : k \in DOMAIN gens }) > 1
MixedKeys == { key \in DOMAIN gradient_generators : Mixed(Generators(key)) }

\* The versioned blob that input name n of forward operator i stands for.
InputKey(i, n) == << n, ssa[i].in_versions[n] >>

\* The input names of forward operator i whose generators its accumulation
\* step examines, and those among them with generators of both kinds.
ExaminedInputs(i) ==
    { n \in Range(ssa[i].op.input) :
        /\ Len(Usage(InputKey(i, n))) > 1
        /\ Usage(InputKey(i, n))[1] = i }
MixedInputs(i) == { n \in ExaminedInputs(i) : Mixed(Generators(InputKey(i, n))) }

(* C4 as it is stated: a pass that ends with dense and sparse generators   *)
(* recorded for one versioned blob has failed with the mixed sparse/dense  *)
(* error.                                                                  *)
C4_MixedReported ==
    (pc \in { "done", "failed" } /\ MixedKeys # {}) =>
        (pc = "failed" /\ error.kind = "MixedSparseDense")

(* C4, amended: the pass never returns an operator list while a versioned  *)
(* blob has dense and sparse generators recorded, and no accumulation is   *)
(* ever made of such generators; the accumulation step that examines such  *)
(* a blob (the step of its lowest-index consumer) fails with the mixed     *)
(* sparse/dense error, raised for that blob, and adds no operator.  A pass *)
(* that another error ends before that step reports that other error.     *)
C4_MixedFails ==
    [][ /\ pc' = "done" => MixedKeys' = {}
        /\ \A i \in DOMAIN accumulations' :
              /\ ~Mixed(accumulations'[i].generators)
              /\ Key(accumulations'[i]) \notin MixedKeys'
        /\ (pc = "accumulate" /\ MixedInputs(forward_op_idx) # {}) =>
              /\ pc' = "failed"
              /\ error'.kind = "MixedSparseDense"
              /\ error'.about[1] \in MixedInputs(forward_op_idx)
              /\ Len(all_gradient_ops') = Len(all_gradient_ops)
              /\ accumulations' = accumulations ]_vars

\* The pass has failed with the mixed error, raised for a blob that one
\* operator gave a dense and another a sparse gradient.
C4_Witness ==
    /\ pc = "failed"
    /\ error.kind = "MixedSparseDense"
    /\ Len(error.about) = 1
    /\ error.about[1] \in MixedInputs(forward_op_idx)
    /\ Cardinality(Consumers(InputKey(forward_op_idx, error.about[1]))) >= 2

Min(S) == CHOOSE x \in S : \A y \in S : x <= y

\* The positions of the list that hold a gradient operator of forward
\* operator i.
GradOpsOf(i) == { q \in DOMAIN op_origin : op_origin[q] = Origin("grad", i) }

(* C5: an accumulation for a versioned blob is synthesized by the step of  *)
(* the reverse walk that processes the lowest-index consumer of the blob,  *)
(* and by that step whenever two contributions or more are recorded: its   *)
(* operators stand after the gradient operators of every consumer of the   *)
(* blob (of every forward operator from that consumer on) and before the   *)
(* gradient operators of every forward operator with a smaller index.      *)
C5_AtLowestConsumer ==
    /\ \A i \in DOMAIN accumulations :
         LET a == accumulations[i]
         IN  /\ Cardinality(Uses(Key(a))) >= 2
             /\ a.fwd_op_idx = Min(Consumers(Key(a)))
             /\ \A p \in Positions(a) :
                   /\ p \in DOMAIN op_origin
                   /\ op_origin[p] = Origin("sum", a.fwd_op_idx)
             /\ \A c \in DOMAIN ssa : \A q \in GradOpsOf(c) :
                   /\ c \in Consumers(Key(a)) => q < a.at
                   /\ c >= a.fwd_op_idx => q < a.at
                   /\ c < a.fwd_op_idx => \A p \in Positions(a) : p < q
             /\ \A k \in DOMAIN a.generators :
                   GeneratorGradOp(a.generators[k]) # 0
                      => GeneratorGradOp(a.generators[k]) < a.at
    /\ \A i \in DOMAIN ssa :
         JustAccumulated(i) =>
            \A key \in Keys :
               ( /\ Cardinality(Uses(key)) >= 2
                 /\ Min(Consumers(key)) = i
                 /\ Len(Generators(key)) >= 2 )
               => Accumulated(key) # {}

\* The pass has returned; two forward operators consume the blob, and a
\* forward operator before them has its gradient operator after the merge.
C5_Witness ==
    /\ pc = "done"
    /\ \E i \in DOMAIN accumulations :
         LET a == accumulations[i]
         IN  /\ Cardinality(Consumers(Key(a))) >= 2
             /\ \A c \in Consumers(Key(a)) : GradOpsOf(c) # {}
             /\ \E c \in 1 .. (a.fwd_op_idx - 1) : GradOpsOf(c) # {}

\* The positions of the list whose operator writes blob s.
Producers(s) ==
    { q \in DOMAIN all_gradient_ops : s \in Range(all_gradient_ops[q].output) }

(* C6: in the list a successful pass returns, every input of an operator   *)
(* that some operator of the list produces is produced by an operator at   *)
(* an earlier position.                                                    *)
C6_ProducersFirst ==
    pc = "done" =>
        \A p \in DOMAIN all_gradient_ops :
            \A s \in Range(all_gradient_ops[p].input) :
                Producers(s) # {} => \E q \in Producers(s) : q < p

\* What the step of the reverse walk at forward operator i starts from: the
\* gradients of its outputs, and the answer of the gradient rule to them.
OutputGradients(i) ==
    [k \in DOMAIN ssa[i].op.output |->
        MapGet(all_input_to_grad, ssa[i].op.output[k])]
HasOutputGradient(i) ==
    \E k \in DOMAIN OutputGradients(i) : OutputGradients(i)[k] # None
Rule(i) == GetGradientForOp(ssa[i].op, OutputGradients(i))

\* The blobs the gradient operators generated for forward operator i read.
GradOpReads(i) ==
    IF HasOutputGradient(i) /\ Rule(i).raised = NoError
    THEN UNION { Range(Rule(i).gradient_ops[k].input) :
                 k \in DOMAIN Rule(i).gradient_ops }
    ELSE {}

\* A forward operator after i writes blob s again.
WrittenLater(i, s) ==
    \E j \in (i + 1) .. Len(ssa) : s \in Range(ssa[j].op.output)

\* The inputs and outputs of forward operator i that its gradient
\* operators read and a later forward operator has written again.
StaleReads(i) ==
    { s \in GradOpReads(i) :
        /\ s \in Range(ssa[i].op.input) \cup Range(ssa[i].op.output)
        /\ WrittenLater(i, s) }

VersionMismatch == { "OutputVersionMismatch", "InputVersionMismatch" }

(* C7: when a gradient operator generated for forward operator i reads an  *)
(* input or output of operator i that a later forward operator has         *)
(* written again (the version recorded for operator i is not the Frontier  *)
(* version), the step fails with a version mismatch raised for such a      *)
(* blob, and no operator is added to the list.                             *)
C7_StaleForwardBlob ==
    [][ (pc = "generate" /\ StaleReads(forward_op_idx) # {}) =>
           /\ pc' = "failed"
           /\ error'.kind \in VersionMismatch
           /\ error'.about[1] \in StaleReads(forward_op_idx)
           /\ all_gradient_ops' = all_gradient_ops ]_vars

\* The recorded version of a stale blob differs from the Frontier version.
C7_Witness ==
    /\ pc = "failed"
    /\ error.kind = "InputVersionMismatch"
    /\ error.about[1] \in StaleReads(forward_op_idx)
    /\ ssa[forward_op_idx].in_versions[error.about[1]]
          # FrontierGet(frontier, error.about[1])

\* The outputs of forward operator i whose gradient name a gradient
\* operator generated for i reads while the gradient belongs to another
\* version of the output than the one operator i wrote.
MisversionedGradientReads(i) ==
    { k \in DOMAIN ssa[i].op.output :
        /\ \E s \in GradOpReads(i) : GradMatches(OutputGradients(i)[k], s)
        /\ ssa[i].op.output[k] \in DOMAIN gradient_frontier
        /\ ssa[i].out_versions[ssa[i].op.output[k]]
              # gradient_frontier[ssa[i].op.output[k]] }

(* C8: when a gradient operator generated for forward operator i reads the *)
(* gradient name of an output b of operator i, the version of b recorded   *)
(* for operator i is the Gradient Frontier version of b, or else the pass  *)
(* aborts: no step accepts gradient operators that read the gradient of    *)
(* another version of an output.                                           *)
C8_GradientVersion ==
    [][ (pc = "generate" /\ MisversionedGradientReads(forward_op_idx) # {})
           => pc' = "failed" ]_vars

\* The blobs that a gradient operator generated for forward operator i
\* reads although they are no gradient name of its outputs, no input or
\* output of operator i, and no output of an earlier gradient operator
\* generated for i.
OutOfScopeReads(i) ==
    IF HasOutputGradient(i) /\ Rule(i).raised = NoError
    THEN { s \in GradOpReads(i) :
             \E k \in DOMAIN Rule(i).gradient_ops :
                /\ s \in Range(Rule(i).gradient_ops[k].input)
                /\ GetIndexFromGradientList(OutputGradients(i), s) = -1
                /\ s \notin Range(ssa[i].op.input) \cup Range(ssa[i].op.output)
                /\ \A j \in 1 .. (k - 1) :
                      s \notin Range(Rule(i).gradient_ops[j].output) }
    ELSE {}

(* C9: when a gradient operator reads a blob that is no gradient name of   *)
(* the outputs of the forward operator, no input or output of the forward  *)
(* operator and no output of an earlier gradient operator of the same      *)
(* rule, the step fails with the error that names that blob and the        *)
(* forward operator, and no operator is added to the list.                 *)
C9_OutOfScope ==
    [][ (pc = "generate" /\ OutOfScopeReads(forward_op_idx) # {}) =>
           /\ pc' = "failed"
           /\ error'.kind = "UndefinedLocalReference"
           /\ Len(error'.about) = 2
           /\ error'.about[1] \in OutOfScopeReads(forward_op_idx)
           /\ error'.about[2] = ToString(ssa[forward_op_idx].op)
           /\ all_gradient_ops' = all_gradient_ops ]_vars

\* The pass has failed on the scratch blob of a gradient operator.
C9_Witness ==
    /\ pc = "failed"
    /\ error.kind = "UndefinedLocalReference"
    /\ error.about[1] \in OutOfScopeReads(forward_op_idx)
    /\ error.about[1] = ScratchBlob

\* Forward operator i has a gradient to hand back, and neither the native
\* rules nor the registry have a rule for it.
Unregistered(i) ==
    /\ HasOutputGradient(i)
    /\ GetGradientForOpCC(ssa[i].op, OutputGradients(i)).raised # NoError
    /\ ssa[i].op.type \notin RegisteredTypes

(* C10: when the reverse walk reaches a forward operator with a gradient   *)
(* for one of its outputs and neither the native rules nor the registry    *)
(* have a rule for its type, the step fails with the 'no gradient          *)
(* registered' error, which names the type and carries the text of the     *)
(* native failure, and no operator is added to the list.                   *)
C10_NoGradientRegistered ==
    [][ (pc = "generate" /\ Unregistered(forward_op_idx)) =>
           /\ pc' = "failed"
           /\ error'.kind = "NoGradientRegistered"
           /\ error'.about =
                 << ssa[forward_op_idx].op.type,
                    GetGradientForOpCC(ssa[forward_op_idx].op,
                        OutputGradients(forward_op_idx)).raised.kind >>
           /\ all_gradient_ops' = all_gradient_ops ]_vars

\* The pass has failed at an operator of a type without a rule.
C10_Witness ==
    /\ pc = "failed"
    /\ error.kind = "NoGradientRegistered"
    /\ Unregistered(forward_op_idx)
    /\ error.about[1] = "Foo"

-----------------------------------------------------------------------------
(* C11 *)

\* What one accumulation step hands back to GetBackwardPass when the set
\* of input names is walked in the given order.
AccumulationOutcome(order) ==
    LET st == AccumulateInputs(
                  [err |-> NoError, ops |-> all_gradient_ops, sum_ops |-> << >>,
                   grad_map |-> EmptyMap, gg |-> gradient_generators,
                   acc |-> accumulations],
                  order, 1, forward_op_idx)
    IN  [err |-> st.err, ops |-> st.ops, sum_ops |-> st.sum_ops,
         grad_map |-> st.grad_map]

\* What the seeding hands back when the targets are walked in that order.
SeedOutcome(targets) ==
    GetInitGradients([input_to_grad |-> EmptyMap, gradient_ops |-> << >>],
                     targets, 1)

\* C11: the operators and the gradient map of a backward pass are a function
\* of the forward operators and of the targets: whichever way the set of an
\* operator's input names is walked, the accumulation step emits the same
\* operators in the same order, and whichever way the targets are walked,
\* the seeding does.
C11_OrderIndependent ==
    /\ pc = "accumulate" =>
          \A o1, o2 \in Perms(Range(ssa[forward_op_idx].op.input)) :
              AccumulationOutcome(o1) = AccumulationOutcome(o2)
    /\ pc = "play" =>
          \A ys_in \in TargetSpecsOf(catalog) :
              ys_in.type \in { "list", "dict" } =>
                  \A t1, t2 \in TargetItems(ys_in) :
                      SeedOutcome(t1) = SeedOutcome(t2)

-----------------------------------------------------------------------------
(* C12 *)

SeedPositions == { k \in DOMAIN all_gradient_ops : op_origin[k].kind = "init" }
IsSeedOf(op, y) ==
    /\ op.type = "ConstantFill"
    /\ op.input = << y >>
    /\ op.output = << y \o "_autogen_grad" >>
NoneTargets == { t \in Range(ys) : t[2] = None }

\* One ConstantFill per target without a gradient, none for the others,
\* and all of them in front of the list.
SeedsInFront ==
    /\ \A t \in NoneTargets :
          /\ Cardinality({ k \in DOMAIN all_gradient_ops :
                              IsSeedOf(all_gradient_ops[k], t[1]) }) = 1
          /\ \E k \in SeedPositions : IsSeedOf(all_gradient_ops[k], t[1])
    /\ Cardinality(SeedPositions) = Cardinality(NoneTargets)
    /\ \A k \in DOMAIN all_gradient_ops :
          all_gradient_ops[k].type = "ConstantFill" => k \in SeedPositions
    /\ \A k \in SeedPositions : \A j \in DOMAIN all_gradient_ops :
          j \notin SeedPositions => k < j

\* The gradient map holds, for each target, the output of its seed
\* operator or the gradient it came with.
SeededWith(map) ==
    \A t \in Range(ys) :
        /\ t[1] \in DOMAIN map
        /\ map[t[1]] = IF t[2] = None THEN Dense(t[1] \o "_autogen_grad")
                       ELSE t[2]

\* C12: each target mapped to None gets exactly one ConstantFill operator
\* reading y and writing y_autogen_grad, whose output seeds the gradient of
\* y; a target given a gradient gets no such operator and is seeded with
\* that gradient; the seed operators come before every other operator of
\* the list, at every point of the pass.
C12_Seeds ==
    [][/\ SeedsInFront'
       /\ (pc = "play" /\ pc' \notin { "play", "failed" }) =>
              SeededWith(all_input_to_grad)']_vars

\* Two targets, one of each kind, and a pass that went on to emit a
\* gradient operator and a sum after the seed.
C12_Witness ==
    /\ pc = "done"
    /\ Len(ys) = 2
    /\ \E t, u \in Range(ys) : t[2] = None /\ u[2] # None
    /\ \E k, j \in DOMAIN op_origin :
          op_origin[k].kind = "grad" /\ op_origin[j].kind = "sum"

-----------------------------------------------------------------------------
(* C13 *)

\* How many times b is listed as an output among the operators played.
RECURSIVE OutputCount(_, _)
OutputCount(b, i) ==
    IF i = 0 THEN 0
    ELSE OutputCount(b, i - 1)
         + Cardinality({ k \in DOMAIN ssa[i].op.output : ssa[i].op.output[k] = b })

Writers(b) == { i \in DOMAIN ssa : b \in Range(ssa[i].op.output) }
\* b was an input of the operator that first wrote it, or of an earlier one.
ReadBeforeWritten(b) ==
    \E i \in DOMAIN ssa :
        /\ b \in Range(ssa[i].op.input)
        /\ \A w \in Writers(b) : i <= w

\* C13 as stated: the version of a blob is the number of times it was an
\* output of the operators replayed so far.
C13_FrontierCountsOutputs ==
    \A b \in Blobs : FrontierGet(frontier, b) = OutputCount(b, Len(ssa))

FrontierIsVersion ==
    \A b \in Blobs :
        FrontierGet(frontier, b) =
            IF Writers(b) = {} THEN 0
            ELSE IF ReadBeforeWritten(b) THEN OutputCount(b, Len(ssa))
            ELSE OutputCount(b, Len(ssa)) - 1

\* C13: replaying an operator never lowers the version of a blob, and the
\* version is the number of times the blob was an output so far when it was
\* read as an input before (or by) its first writer, one less than that
\* number when it was first met as an output (a newly created blob starts
\* at version zero), and zero when it was never written.
C13_FrontierVersions ==
    [][/\ \A b \in Blobs : FrontierGet(frontier', b) >= FrontierGet(frontier, b)
       /\ FrontierIsVersion']_vars

\* A blob written twice after it was created by an operator, next to one
\* that was read before it was written.
C13_Witness ==
    /\ pc = "play"
    /\ \E b \in Blobs :
          /\ ~ReadBeforeWritten(b)
          /\ OutputCount(b, Len(ssa)) = 2
          /\ frontier[b] = 1
    /\ \E b \in Blobs :
          /\ ReadBeforeWritten(b)
          /\ OutputCount(b, Len(ssa)) = 1
          /\ frontier[b] = 1

-----------------------------------------------------------------------------
(* C14 *)

\* The inputs whose gradient frontier the step at forward operator i
\* assigns: those the rule returned a gradient for.
FrontierAssigned(i) ==
    IF HasOutputGradient(i) /\ Rule(i).raised = NoError
    THEN { ssa[i].op.input[j] :
             j \in { k \in DOMAIN Rule(i).g_input : Rule(i).g_input[k] # None } }
    ELSE {}

\* C14 as stated: an assignment to a gradient frontier that is already set
\* moves it to a strictly earlier version.
C14_StrictlyEarlier ==
    [][(pc = "generate" /\ pc' = "accumulate") =>
          \A b \in FrontierAssigned(forward_op_idx) \cap DOMAIN gradient_frontier :
              gradient_frontier'[b] < gradient_frontier[b]]_vars

\* C14: the gradient frontier of a blob, once set, stays set and never
\* increases; an assignment of the reverse walk leaves it at the version it
\* has (that version has one more consumer) or moves it to an earlier one.
C14_NeverIncreases ==
    [][\A b \in DOMAIN gradient_frontier :
          /\ b \in DOMAIN gradient_frontier'
          /\ gradient_frontier'[b] <= gradient_frontier[b]
          /\ (pc = "generate" /\ pc' = "accumulate"
                  /\ b \in FrontierAssigned(forward_op_idx)) =>
                 gradient_frontier'[b] = ssa[forward_op_idx].in_versions[b]]_vars

\* A target whose gradient frontier the walk has moved below the version it
\* was seeded at, and a version whose frontier was assigned by two consumers.
C14_Witness ==
    /\ \E t \in Range(ys) :
          /\ frontier[t[1]] >= 1
          /\ gradient_frontier[t[1]] < frontier[t[1]]
    /\ \E key \in DOMAIN gradient_generators :
          /\ Len(gradient_generators[key]) >= 2
          /\ gradient_frontier[key[1]] = key[2]

-----------------------------------------------------------------------------
(* C15 *)

\* C15 as stated: in every state of the pass the generators recorded for a
\* versioned blob are all dense or all sparse.
C15_Homogeneous == MixedKeys = {}

\* The accumulation step of the versioned blob is still to come: the walk
\* has not gone past its lowest-index consumer.
AwaitsAccumulation(key) ==
    /\ pc \in { "generate", "accumulate" }
    /\ Len(Usage(key)) > 1
    /\ forward_op_idx >= Usage(key)[1]

\* C15: a generator of the other kind is recorded without complaint; the
\* mixed list stays in the ledger until the accumulation step of the
\* lowest-index consumer of the versioned blob, which no pass gets past:
\* a list is mixed only while that step is still to come or after the pass
\* has failed, and the ledger of a pass that returned has no mixed list.
C15_MixedUntilAccumulation ==
    /\ \A key \in MixedKeys : pc = "failed" \/ AwaitsAccumulation(key)
    /\ pc = "done" => MixedKeys = {}

\* The recording step has gone through and left a mixed list behind.
C15_Witness ==
    /\ pc = "accumulate"
    /\ error = NoError
    /\ \E key \in MixedKeys :
          /\ Len(Generators(key)) >= 2
          /\ Usage(key)[1] < forward_op_idx

-----------------------------------------------------------------------------
(* C16 *)

\* The gradients the rule returned for input name n of forward operator i.
ReturnedFor(i, n) ==
    { Rule(i).g_input[j] :
        j \in { k \in DOMAIN ssa[i].op.input \cap DOMAIN Rule(i).g_input :
                   ssa[i].op.input[k] = n } }

\* The step at forward operator i has asked the rule and recorded its answer.
Recorded(i) ==
    /\ pc = "generate"
    /\ pc' = "accumulate"
    /\ HasOutputGradient(i)

-----------------------------------------------------------------------------
(* C17 *)

\* The names of a generator that no gradient operator produces.
PassthroughNames(g) ==
    IF g.type = "GradGenMeta"
    THEN IF g.grad_op = 0 THEN Range(g.gradient) ELSE {}
    ELSE IF g.grad_op_indices = 0 /\ g.grad_op_values = 0
         THEN Range(g.gradient) ELSE {}

\* The input names of forward operator i that are up for accumulation with
\* a passthrough contribution named like the output chosen for the sum.
Colliding(i) ==
    { n \in ExaminedInputs(i) :
        LET gens == Generators(InputKey(i, n))
        IN  /\ Len(gens) >= 2
            /\ \E k \in DOMAIN gens :
                  GetSumOpOutputName(gens, 1, n, all_gradient_ops)
                      \in PassthroughNames(gens[k]) }

\* C17: an accumulation step that comes upon a passthrough contribution
\* whose gradient name is the name chosen for the output of the sum ends
\* the pass with a failure, and adds no operator to the list.
C17_NamingCollision ==
    [][(pc = "accumulate" /\ Colliding(forward_op_idx) # {}) =>
          /\ pc' = "failed"
          /\ error' # NoError
          /\ Len(all_gradient_ops') = Len(all_gradient_ops)
          /\ accumulations' = accumulations]_vars

\* The pass has failed on the collision: B_grad handed through next to a
\* gradient operator's B_grad.
C17_Witness ==
    /\ pc = "failed"
    /\ error.kind = "NamingCollision"
    /\ \E key \in DOMAIN gradient_generators :
          /\ Len(Generators(key)) >= 2
          /\ \E k, j \in DOMAIN Generators(key) :
                /\ key[1] \o "_grad" \in PassthroughNames(Generators(key)[k])
                /\ Generators(key)[j].type = "GradGenMeta"
                /\ Generators(key)[j].grad_op # 0

-----------------------------------------------------------------------------
(* C18 *)

\* The gradient operators that produce the gradient of a generator.
ProducingOps(g) ==
    IF g.type = "GradGenMeta" THEN { g.grad_op } \ { 0 }
    ELSE { g.grad_op_indices, g.grad_op_values } \ { 0 }

\* The input names of forward operator i that are up for accumulation with
\* two or more generators whose gradient operators sit on different devices.
DeviceClash(i) ==
    { n \in ExaminedInputs(i) :
        LET gens == Generators(InputKey(i, n))
        IN  /\ Len(gens) >= 2
            /\ \E k, j \in DOMAIN gens :
                  \E p \in ProducingOps(gens[k]), q \in ProducingOps(gens[j]) :
                      all_gradient_ops[p].device_option
                          # all_gradient_ops[q].device_option }

\* C18 as stated: the accumulation step of generators on different devices
\* fails with an error that names the blob, and emits no operator.
C18_DeviceClashNamed ==
    [][(pc = "accumulate" /\ DeviceClash(forward_op_idx) # {}) =>
          /\ pc' = "failed"
          /\ \E n \in DeviceClash(forward_op_idx) : error'.about = << n >>
          /\ Len(all_gradient_ops') = Len(all_gradient_ops)]_vars

\* C18: the accumulation step of generators on different devices fails and
\* adds no operator to the list; the failure names the blob, unless the
\* accumulation of another input of the same forward operator has failed
\* before this one was looked at (then it names that input, or, for a
\* naming collision, no blob).
C18_DeviceClashFails ==
    [][(pc = "accumulate" /\ DeviceClash(forward_op_idx) # {}) =>
          /\ pc' = "failed"
          /\ Len(all_gradient_ops') = Len(all_gradient_ops)
          /\ accumulations' = accumulations
          /\ \/ \E n \in DeviceClash(forward_op_idx) : error'.about = << n >>
             \/ \E m \in ExaminedInputs(forward_op_idx)
                            \ DeviceClash(forward_op_idx) :
                    error'.about = << m >>
             \/ /\ error'.kind = "NamingCollision"
                /\ Colliding(forward_op_idx) \ DeviceClash(forward_op_idx) # {}]_vars

\* The pass has failed on the devices of the gradient operators of a blob.
C18_Witness ==
    /\ pc = "failed"
    /\ error.kind = "DeviceOptionsDiffer"
    /\ Len(error.about) = 1
    /\ error.about[1] \in DeviceClash(forward_op_idx)

-----------------------------------------------------------------------------
(* C19 *)

\* Nothing of the backward pass has been created or changed.
NoBackwardState ==
    UNCHANGED << ys, frontier, gradient_frontier, gradient_generators,
                 all_input_to_grad, all_gradient_ops, forward_op_idx >>

RejectedAsType ==
    /\ pc' = "failed"
    /\ error'.kind = "TypeError"
    /\ NoBackwardState

\* The targets are the blobs handed in, each seeded with None.
AcceptedAsNoneSeeds(ys_in) ==
    /\ pc' # "failed"
    /\ { t[1] : t \in Range(ys') } = Range(ys_in.items)
    /\ \A t \in Range(ys') : t[2] = None

\* C19 as stated: a set of blobs is accepted like a list, each blob seeded
\* with None; what is neither a set, a list nor a mapping is rejected with a
\* type error that leaves no trace.
C19_SetAccepted ==
    [][\A ys_in \in TargetSpecsOf(catalog) :
          GetBackwardPass(ys_in) =>
              IF ys_in.type \in { "set", "list" } THEN AcceptedAsNoneSeeds(ys_in)
              ELSE IF ys_in.type = "dict" THEN pc' # "failed"
              ELSE RejectedAsType]_vars

\* C19: a list of blobs is accepted, each blob seeded with None, and so is
\* a mapping; anything else, a set of blobs included, is rejected with a
\* type error before any gradient frontier, generator or gradient-map
\* state is created or changed.
C19_ListOrDict ==
    [][\A ys_in \in TargetSpecsOf(catalog) :
          GetBackwardPass(ys_in) =>
              IF ys_in.type = "list" THEN AcceptedAsNoneSeeds(ys_in)
              ELSE IF ys_in.type = "dict"
              THEN pc' # "failed" /\ Range(ys') = Range(ys_in.items)
              ELSE RejectedAsType]_vars

\* A set of targets has been turned down after a forward pass was played.
C19_Witness ==
    /\ pc = "failed"
    /\ error.kind = "TypeError"
    /\ Len(ssa) >= 2
    /\ gradient_frontier = EmptyMap
    /\ all_input_to_grad = EmptyMap

-----------------------------------------------------------------------------
(* C20 *)

\* The operators of the list that a step has changed.
Renamed == { k \in DOMAIN all_gradient_ops :
               all_gradient_ops'[k] # all_gradient_ops[k] }

\* C20: no step of the backward pass, whether the pass goes on to return or
\* to fail, changes the SSA history (with it the type, inputs and outputs
\* of every forward operator), the input usages or the version of any
\* blob; the only operators a step changes are gradient operators it was
\* given by a rule, and of those only the names of the outputs.
C20_ForwardStateKept ==
    [][pc' # "play" =>
          /\ ssa' = ssa
          /\ input_usages' = input_usages
          /\ DOMAIN frontier \subseteq DOMAIN frontier'
          /\ \A b \in Blobs : FrontierGet(frontier', b) = FrontierGet(frontier, b)
          /\ \A k \in Renamed :
                /\ op_origin[k].kind = "grad"
                /\ all_gradient_ops'[k].type = all_gradient_ops[k].type
                /\ all_gradient_ops'[k].input = all_gradient_ops[k].input]_vars

\* A pass has returned after renaming the output of a gradient operator for
\* a sum, for a target that was written twice.
C20_Witness ==
    /\ pc = "done"
    /\ Len(accumulations) >= 1
    /\ \E t \in Range(ys) : frontier[t[1]] >= 1
    /\ \E k \in DOMAIN all_gradient_ops :
          /\ op_origin[k].kind = "grad"
          /\ \E n \in Blobs :
                AutosplitName(n \o "_grad", 0) \in Range(all_gradient_ops[k].output)

-----------------------------------------------------------------------------
(* C21 *)

\* The SSA entries that mention b, as an input or as an output.
Mentions(b) ==
    { i \in DOMAIN ssa :
        b \in DOMAIN ssa[i].in_versions \cup DOMAIN ssa[i].out_versions }
Mentioned == { b \in Blobs : Mentions(b) # {} }
LastMention(b) == CHOOSE i \in Mentions(b) : \A j \in Mentions(b) : j <= i

\* The frontier read off the SSA history: for each blob the version in the
\* last entry that mentions it, the version the entry wrote if it wrote it.
FrontierOfHistory ==
    [b \in Mentioned |->
        LET e == ssa[LastMention(b)]
        IN  IF b \in DOMAIN e.out_versions THEN e.out_versions[b]
            ELSE e.in_versions[b]]

\* IR(operators): the replay of a sequence from the empty state.
RECURSIVE Replay(_, _, _)
Replay(st, operators, k) ==
    IF k > Len(operators) THEN st
    ELSE LET op == operators[k]
             f1 == PlayInputsFrontier(st.frontier, op.input, 1)
             f2 == PlayOutputsFrontier(f1, op.output, 1)
         IN  Replay(
                 [ssa |-> Append(st.ssa,
                      [op |-> op,
                       in_versions |->
                           [s \in Range(op.input) |-> FrontierGet(st.frontier, s)],
                       out_versions |-> [s \in Range(op.output) |-> f2[s]]]),
                  frontier |-> f2],
                 operators, k + 1)

ForwardOps == [i \in DOMAIN ssa |-> ssa[i].op]
ReplayedAgain == Replay([ssa |-> << >>, frontier |-> EmptyMap], ForwardOps, 1)

\* C21: after any forward sequence the frontier is the one read off the
\* recorded SSA history (per blob, the version in the last entry that
\* mentions it), and replaying the recorded operators from scratch gives the
\* same SSA history and the same frontier.
C21_FrontierRederived ==
    /\ \A b \in Blobs :
          FrontierGet(frontier, b) = FrontierGet(FrontierOfHistory, b)
    /\ ReplayedAgain.ssa = ssa
    /\ pc = "play" =>
          /\ frontier = FrontierOfHistory
          /\ ReplayedAgain.frontier = frontier

\* Three operators played: a blob written in place after it was created,
\* one last mentioned as an input, and one listed twice as an output.
C21_Witness ==
    /\ pc = "play"
    /\ Len(ssa) = 3
    /\ \E b \in Blobs :
          /\ FrontierGet(frontier, b) >= 2
          /\ b \in DOMAIN ssa[3].out_versions
    /\ \E b \in Mentioned : b \notin DOMAIN ssa[LastMention(b)].out_versions
    /\ \E i \in DOMAIN ssa : Len(ssa[i].op.output) = 2

-----------------------------------------------------------------------------
(* C29 *)

\* How many times b is listed in a sequence of names.
Occurrences(names, b) == Cardinality({ k \in DOMAIN names : names[k] = b })

\* idx listed n times.
Times(idx, n) == [k \in 1 .. n |-> idx]

\* The entry a step of the replay has appended.
Played == ssa'[Len(ssa')]

\* C29: replaying an operator records, for each input, the frontier version
\* the blob had before the operator (0 for a blob never referenced) and
\* appends the operator's index to the input usages of that version, once
\* per listing; for each output it records the incremented version when the
\* blob has a frontier entry from an earlier read or write (a read by the
\* operator itself included) and 0 otherwise, incremented once more for
\* every further listing of the blob among the outputs.  The recorded
\* output versions are the frontier right after the operator.
C29_PlayRecords ==
    [][Len(ssa') = Len(ssa) + 1 =>
          /\ \A b \in Range(Played.op.input) :
                /\ Played.in_versions[b] = FrontierGet(frontier, b)
                /\ b \notin Mentioned => Played.in_versions[b] = 0
                /\ ListGet(input_usages', << b, Played.in_versions[b] >>) =
                       ListGet(input_usages, << b, Played.in_versions[b] >>)
                           \o Times(Len(ssa'), Occurrences(Played.op.input, b))
          /\ \A key \in DOMAIN input_usages' :
                (key[1] \notin Range(Played.op.input)
                     \/ key[2] # FrontierGet(frontier, key[1])) =>
                    key \in DOMAIN input_usages
                        /\ input_usages'[key] = input_usages[key]
          /\ \A b \in Range(Played.op.output) :
                /\ Played.out_versions[b] =
                       (IF b \in Mentioned \/ b \in Range(Played.op.input)
                        THEN FrontierGet(frontier, b) + 1 ELSE 0)
                           + Occurrences(Played.op.output, b) - 1
                /\ Played.out_versions[b] = frontier'[b]
          /\ DOMAIN Played.in_versions = Range(Played.op.input)
          /\ DOMAIN Played.out_versions = Range(Played.op.output)
          /\ \A b \in Blobs \ Range(Played.op.output) :
                FrontierGet(frontier', b) = FrontierGet(frontier, b)]_vars

\* The third operator played reads a blob twice that was written before and
\* creates a blob, after an operator without inputs.
C29_Witness ==
    /\ pc = "play"
    /\ Len(ssa) = 3
    /\ Occurrences(ssa[3].op.input, "B") = 2
    /\ ssa[3].in_versions["B"] >= 1
    /\ ssa[3].out_versions["C"] = 0
    /\ \E i \in 1 .. 2 : ssa[i].op.input = << >>
    /\ Len(input_usages[<< "B", ssa[3].in_versions["B"] >>]) = 2

-----------------------------------------------------------------------------
(* C30 *)

\* No operator played lists a blob twice among its outputs.
OutputsListedOnce ==
    \A i \in DOMAIN ssa :
        \A b \in Range(ssa[i].op.output) : Occurrences(ssa[i].op.output, b) = 1

\* The operators before i that wrote b, and the last of them.
WritersBefore(b, i) == { w \in Writers(b) : w < i }
LastWriterBefore(b, i) ==
    CHOOSE w \in WritersBefore(b, i) : \A v \in WritersBefore(b, i) : v <= w

\* C30: in a forward sequence in which no operator lists an output twice,
\* no two operators record the same output version of a blob, a version
\* read before any write of the blob is not the version of any write, and
\* the input version recorded for a blob at an operator is the output
\* version of the last operator before it that wrote the blob, or 0 if
\* there is none.
C30_VersionsIdentifyValues ==
    OutputsListedOnce =>
        /\ \A i, j \in DOMAIN ssa :
              i < j =>
                  \A b \in DOMAIN ssa[i].out_versions \cap DOMAIN ssa[j].out_versions :
                      ssa[i].out_versions[b] # ssa[j].out_versions[b]
        /\ \A i \in DOMAIN ssa :
              \A b \in DOMAIN ssa[i].in_versions :
                  IF WritersBefore(b, i) = {}
                  THEN /\ ssa[i].in_versions[b] = 0
                       /\ \A w \in Writers(b) :
                             ssa[w].out_versions[b] # ssa[i].in_versions[b]
                  ELSE ssa[i].in_versions[b] =
                           ssa[LastWriterBefore(b, i)].out_versions[b]

\* A blob read before it was written and then written in place twice, the
\* second write reading what the first one wrote.
C30_Witness ==
    /\ OutputsListedOnce
    /\ Len(ssa) = 3
    /\ \E b \in Blobs :
          /\ b \in DOMAIN ssa[1].in_versions
          /\ Writers(b) = { 2, 3 }
          /\ b \in DOMAIN ssa[3].in_versions
          /\ ssa[3].in_versions[b] = 1
          /\ ssa[3].out_versions[b] = 2

-----------------------------------------------------------------------------
(* C22 *)

\* What the native rule and the registered rule answer for forward
\* operator i and the gradients of its outputs.
Native(i) == GetGradientForOpCC(ssa[i].op, OutputGradients(i))
Registered(i) == RegisteredGradient(ssa[i].op, OutputGradients(i))

\* The step for forward operator i has taken the answer r of a rule: its
\* operators are the ones appended and its gradients the ones recorded, or
\* its exception is the one that ended the pass.
TakenFrom(r, i) ==
    IF r.raised # NoError THEN pc' = "failed" /\ error' = r.raised
    ELSE IF pc' = "failed" THEN error' \notin { Native(i).raised, Registered(i).raised }
    ELSE /\ all_gradient_ops' = all_gradient_ops \o r.gradient_ops
         /\ \A j \in DOMAIN ssa[i].op.input :
               (r.g_input[j] # None
                    /\ Occurrences(ssa[i].op.input, ssa[i].op.input[j]) = 1) =>
                   all_input_to_grad'[ssa[i].op.input[j]] = r.g_input[j]

\* C22: the answer for an operator is the native rule's whenever the native
\* rule succeeds, also for a type with a registered rule, whose answer then
\* plays no part; the registered rule of the type is taken only when the
\* native rule fails, and a type without one then fails the pass.
C22_NativeFirst ==
    [][(pc = "generate" /\ HasOutputGradient(forward_op_idx)) =>
          IF Native(forward_op_idx).raised = NoError
          THEN TakenFrom(Native(forward_op_idx), forward_op_idx)
          ELSE IF ssa[forward_op_idx].op.type \in RegisteredTypes
          THEN TakenFrom(Registered(forward_op_idx), forward_op_idx)
          ELSE /\ pc' = "failed"
               /\ error'.kind = "NoGradientRegistered"]_vars

\* A pass has taken the native rule for one operator of a type that has
\* both rules, and the registered rule for another whose output gradient
\* is sparse.
C22_Witness ==
    /\ pc = "done"
    /\ \E k \in DOMAIN all_gradient_ops : all_gradient_ops[k].type = "DualGradient"
    /\ \E i \in DOMAIN ssa :
          /\ ssa[i].op.type = "Dual"
          /\ GradOpsOf(i) = {}
          /\ \E b \in Range(ssa[i].op.input) :
                b \in DOMAIN all_input_to_grad /\ IsSlice(all_input_to_grad[b])

-----------------------------------------------------------------------------
(* C26 *)

\* The blobs defined in a NetDef: outputs of its operators and its external
\* inputs.
DefinedIn(n) == OutputsOf(n.op) \cup Range(n.external_input)

-----------------------------------------------------------------------------
(* C27 *)

\* C27 as stated: after any sequence of operator additions, external-input
\* additions, Proto() accesses and edits through a reference that Proto()
\* returned before, BlobIsDefined(b) answers true exactly when b is an
\* output of an operator that is in the net or one of its external inputs.
C27_DefinedExactly ==
    [][\A blob \in Blobs :
          BlobIsDefined(blob) =>
              call'.result = << "returned", blob \in DefinedIn(net') >>]_vars

-----------------------------------------------------------------------------
(* C23 *)

\* The operators (ids from 0) that produce a versioned blob.
ProducersOf(ssa_, v) == { k - 1 : k \in { j \in DOMAIN ssa_ : v \in Range(ssa_[j].outputs) } }

\* The versioned blobs a path to the targets needs, given the operators U
\* on it: the targets and the inputs of U, less what is given.
NeededBlobs(ssa_, given, targets, U) ==
    (targets \cup UNION { Range(ssa_[u + 1].inputs) : u \in U }) \ given

\* The least set of operators that holds the producers of every needed
\* blob.
RECURSIVE NeededOps(_, _, _, _)
NeededOps(ssa_, given, targets, U) ==
    LET more == UNION { ProducersOf(ssa_, v) :
                        v \in NeededBlobs(ssa_, given, targets, U) }
    IN  IF more \subseteq U THEN U
        ELSE NeededOps(ssa_, given, targets, U \cup more)

Latest(blob_versions, names) ==
    { << names[k], blob_versions[names[k]] >> : k \in DOMAIN names }

\* C23: get_op_ids_in_path returns, in ascending order and without
\* duplicates, exactly the operators reached backward from the latest
\* versions of the outputs through producer links that do not pass a blob
\* of inputs at its latest version; for every operator returned, the
\* producer of each of its versioned inputs that is not given is returned
\* too.
C23_OpsInPath ==
    [][(call.fn = "get_ssa" /\ call'.fn = "get_op_ids_in_path"
           /\ call'.result[1] = "returned") =>
          LET ssa_ == call.result[2].ssa
              blob_versions == call.result[2].blob_versions
              given == Latest(blob_versions, call'.args[3])
              ids == call'.result[2]
          IN  /\ call'.args[1] = ssa_ /\ call'.args[2] = blob_versions
              /\ \A i, j \in DOMAIN ids : i < j => ids[i] < ids[j]
              /\ Range(ids) =
                     NeededOps(ssa_, given,
                               Latest(blob_versions, call'.args[4]), {})
              /\ \A u \in Range(ids) :
                    \A v \in Range(ssa_[u + 1].inputs) \ given :
                        ProducersOf(ssa_, v) \subseteq Range(ids)]_vars

\* A path of two operators that stops at a given blob, in a net of three
\* operators whose first one writes an earlier version of a blob the path
\* reads.
C23_Witness ==
    /\ call.fn = "get_op_ids_in_path"
    /\ call.result[1] = "returned"
    /\ Len(call.args[1]) = 3
    /\ call.result[2] = << 1, 2 >>
    /\ call.args[3] # << >>
    /\ \E v \in Range(call.args[1][2].inputs) :
          v \in Latest(call.args[2], call.args[3]) /\ ProducersOf(call.args[1], v) = { 0 }

-----------------------------------------------------------------------------
(* C24 *)

\* The blobs an operator of the NetDef reads when no operator before it has
\* written them.
ReadBeforeWrittenIn(proto) ==
    { b \in UNION { Range(proto.op[i].input) : i \in DOMAIN proto.op } :
        \E i \in DOMAIN proto.op :
            /\ b \in Range(proto.op[i].input)
            /\ \A w \in 1 .. (i - 1) : b \notin Range(proto.op[w].output) }

\* C24: on the SSA form get_ssa returns for a net, without versions handed
\* in, get_undefined_blobs returns exactly the blobs that some operator
\* reads before any operator of the net has written them.
C24_UndefinedBlobs ==
    [][GetUndefinedBlobs =>
          call'.result = << "returned", ReadBeforeWrittenIn(call.args[1]) >>]_vars

\* A net of three operators: one blob is read before it is written and
\* written later, one is read only after it was written, and one is an
\* external input.
C24_Witness ==
    /\ call.fn = "get_undefined_blobs"
    /\ Len(net.op) = 3
    /\ Len(call.args[1]) = 3
    /\ \E b \in call.result[2] : b \in OutputsOf(net.op)
    /\ \E b \in call.result[2] : b \in Range(net.external_input)
    /\ \E b \in Blobs \ call.result[2] :
          \E i \in DOMAIN net.op : b \in Range(net.op[i].input)

-----------------------------------------------------------------------------
(* C25 *)

\* A step leaves the net as it is: its operators, its external inputs and
\* its lookup tables.
NetKept ==
    /\ net' = net
    /\ op_outputs' = op_outputs
    /\ external_input_map' = external_input_map

\* C25: while the backward pass is built, and when it fails, the net is not
\* touched: a failed AddGradientOperators raises, returns no gradient map,
\* and leaves the operators of the net (the forward operators replayed) and
\* its lookup tables as they were; only a pass that returns appends its
\* operators, all at once.
C25_NoPartialResult ==
    [][IF pc' = "returned"
       THEN /\ net'.op = net.op \o all_gradient_ops
            /\ call'.result = << "returned", all_input_to_grad_out >>
       ELSE (pc' # "play" \/ Len(ssa') > Len(ssa)) =>
                /\ NetKept
                /\ pc' \in { "failed", "raised" } => net'.op = ForwardOps
                /\ pc' = "raised" =>
                       /\ pc = "failed"
                       /\ call'.fn = "AddGradientOperators"
                       /\ call'.result = << "raised", error.kind >>]_vars

\* A call on a net of three operators has raised after the pass had
\* generated gradient operators and recorded gradients.
C25_Witness ==
    /\ pc = "raised"
    /\ Len(net.op) = 3
    /\ Len(all_gradient_ops) >= 2
    /\ all_input_to_grad_out # EmptyMap
    /\ error.kind \notin { "TypeError", "" }

-----------------------------------------------------------------------------
(* C28 *)

Mutators ==
    { "SetIter", "SetOnlyOnce", "SetShouldStopBlob", "RunEveryMillis",
      "SetReportNet", "AddSubstep", "SetConcurrentSubsteps", "AddNet" }

\* C28 as stated: once a step has been added to a plan or to another step,
\* every call of a mutator on it fails, and no call changes its step
\* definition.
C28_UsedStepImmutable ==
    [][\A i \in DOMAIN steps :
          steps[i].is_used =>
              /\ steps'[i].step = steps[i].step
              /\ (step_calls' = step_calls + 1 /\ call'.fn \in Mutators
                      /\ call'.args[1] = i) =>
                     call'.result[1] = "raised"]_vars

-----------------------------------------------------------------------------
(* C31 *)

\* The forward operator the reverse walk stands at has no gradient for any
\* of its outputs.
NothingToPropagate ==
    /\ pc = "generate"
    /\ ~HasOutputGradient(forward_op_idx)

(* C31: when every output of the forward operator at the current index of  *)
(* the reverse walk has an empty gradient, the generation step asks for no *)
(* gradient rule: it emits no operator, leaves the gradient map, the       *)
(* gradient generators and the gradient frontier as they are and raises    *)
(* nothing, also for a type without a rule; the walk goes on to the        *)
(* accumulation check of the same operator.                                *)
C31_EmptyOutputsSkipped ==
    [][ NothingToPropagate =>
           /\ pc' = "accumulate"
           /\ forward_op_idx' = forward_op_idx
           /\ all_gradient_ops' = all_gradient_ops
           /\ all_input_to_grad' = all_input_to_grad
           /\ gradient_generators' = gradient_generators
           /\ gradient_frontier' = gradient_frontier
           /\ error' = NoError ]_vars

\* The walk has passed the generation step of an operator of a type without
\* a rule, none of whose outputs had a gradient, after an operator that got
\* gradient operators.
C31_Witness ==
    /\ pc = "accumulate"
    /\ error = NoError
    /\ ssa[forward_op_idx].op.type = "Foo"
    /\ ~HasOutputGradient(forward_op_idx)
    /\ \E p \in DOMAIN op_origin : op_origin[p].kind = "grad"

-----------------------------------------------------------------------------
(* C32 *)

\* The blobs read by the gradient operators generated for forward operator
\* i that are no gradient name of its outputs and no input or output of it.
OtherReads(i) ==
    { s \in GradOpReads(i) :
        /\ GetIndexFromGradientList(OutputGradients(i), s) = -1
        /\ s \notin Range(ssa[i].op.input) \cup Range(ssa[i].op.output) }

\* Those of them that an operator emitted earlier in the reverse walk, for
\* a forward operator after i or as a seed, has produced, and that are read
\* before any gradient operator generated for i has written them.
ForeignReads(i) == { s \in OutOfScopeReads(i) : Producers(s) # {} }

\* C32 as stated: a blob that some operator emitted earlier in the reverse
\* walk has produced is accepted as locally generated, also when that
\* operator was generated for a later forward operator.
C32_EarlierInWalkAccepted ==
    [][ pc = "generate" =>
            \A s \in ForeignReads(forward_op_idx) :
                ~(/\ pc' = "failed"
                  /\ error'.kind = "UndefinedLocalReference"
                  /\ error'.about[1] = s) ]_vars

(* C32, amended: a blob that a gradient operator generated earlier for the *)
(* same forward operator has produced is accepted as locally generated:    *)
(* when every such read of the gradient operators of the step comes after  *)
(* its producer, the step does not fail on a blob out of scope.  A blob    *)
(* that only operators emitted for other forward operators have produced   *)
(* is not accepted: the step fails.                                        *)
C32_LocalToForwardOperator ==
    [][ pc = "generate" =>
           /\ (OtherReads(forward_op_idx) # {}
                  /\ OutOfScopeReads(forward_op_idx) = {}) =>
                 ~(pc' = "failed" /\ error'.kind = "UndefinedLocalReference")
           /\ ForeignReads(forward_op_idx) # {} => pc' = "failed" ]_vars

\* The step of a Chain operator has been accepted: its second gradient
\* operator reads what its first one wrote.
C32_Witness ==
    /\ pc = "accumulate"
    /\ ssa[forward_op_idx].op.type = "Chain"
    /\ \E p \in DOMAIN all_gradient_ops :
          /\ p > 1
          /\ op_origin[p] = Origin("grad", forward_op_idx)
          /\ op_origin[p - 1] = Origin("grad", forward_op_idx)
          /\ all_gradient_ops[p].input = all_gradient_ops[p - 1].output
          /\ Range(all_gradient_ops[p].input) \cap
                (Range(ssa[forward_op_idx].op.input)
                    \cup Range(ssa[forward_op_idx].op.output)) = {}

-----------------------------------------------------------------------------
(* C33 *)

\* The outputs of the gradient operators that the rule answers for forward
\* operator i which write blob s: << operator, output >>, both from one.
RuleProducers(i, s) ==
    { << k, o >> \in (DOMAIN Rule(i).gradient_ops) \X (1 .. 2) :
        /\ o \in DOMAIN Rule(i).gradient_ops[k].output
        /\ Rule(i).gradient_ops[k].output[o] = s }

\* The inputs of forward operator i, by position, whose gradient is sparse
\* with its indices and its values each written by one output of the
\* gradient operators of the rule.
BothHalvesProduced(i) ==
    IF HasOutputGradient(i) /\ Rule(i).raised = NoError
    THEN { j \in DOMAIN Rule(i).g_input :
             /\ IsSlice(Rule(i).g_input[j])
             /\ Cardinality(RuleProducers(i, Rule(i).g_input[j][1])) = 1
             /\ Cardinality(RuleProducers(i, Rule(i).g_input[j][2])) = 1 }
    ELSE {}

(* C33: when the indices and the values of the sparse gradient of an input *)
(* of the forward operator are outputs of its gradient operators, of one   *)
(* operator or of two, the generation step appends exactly one generator   *)
(* to the generators of the version of the input the operator read.  The   *)
(* generator is sparse, carries the gradient, and names the operator and   *)
(* the output that write the indices and the operator and the output that  *)
(* write the values.  (A step that fails appends nothing that is used.)    *)
C33_OneMergedGenerator ==
    [][ (pc = "generate" /\ pc' = "accumulate") =>
          \A j \in BothHalvesProduced(forward_op_idx) :
            LET i    == forward_op_idx
                n    == ssa[i].op.input[j]
                key  == << n, ssa[i].in_versions[n] >>
                g    == Rule(i).g_input[j]
                base == Len(all_gradient_ops)
                pi   == The(RuleProducers(i, g[1]))
                pv   == The(RuleProducers(i, g[2]))
            IN  /\ ListGet(gradient_generators', key) =
                      Append(Generators(key),
                             SparseGradGenMeta(base + pi[1], pi[2] - 1,
                                               base + pv[1], pv[2] - 1, g))
                /\ all_gradient_ops'[base + pi[1]].output[pi[2]] = g[1]
                /\ all_gradient_ops'[base + pv[1]].output[pv[2]] = g[2] ]_vars

\* The pass has recorded a generator merged from the outputs of two
\* gradient operators and one whose halves are the second and the first
\* output of one operator.
C33_Witness ==
    /\ pc = "accumulate"
    /\ \E key \in DOMAIN gradient_generators :
          \E k \in DOMAIN gradient_generators[key] :
              LET m == gradient_generators[key][k]
              IN  /\ m.type = "SparseGradGenMeta"
                  /\ m.grad_op_indices # 0 /\ m.grad_op_values # 0
                  /\ m.grad_op_indices # m.grad_op_values
    /\ \E key \in DOMAIN gradient_generators :
          \E k \in DOMAIN gradient_generators[key] :
              LET m == gradient_generators[key][k]
              IN  /\ m.type = "SparseGradGenMeta"
                  /\ m.grad_op_indices # 0
                  /\ m.grad_op_indices = m.grad_op_values
                  /\ m.idx_indices = 1 /\ m.idx_values = 0

-----------------------------------------------------------------------------
(* C34 *)

\* The input usages that playing a list of operators from the empty state
\* leaves, and the SSA history it leaves.
RECURSIVE UsagesOf(_, _, _, _)
UsagesOf(u, f, operators, k) ==
    IF k > Len(operators) THEN u
    ELSE UsagesOf(PlayInputUsages(u, f, operators[k].input, 1, k),
                  PlayOutputsFrontier(
                      PlayInputsFrontier(f, operators[k].input, 1),
                      operators[k].output, 1),
                  operators, k + 1)
UsagesOfAll(operators) == UsagesOf(EmptyMap, EmptyMap, operators, 1)
HistoryOf(operators) ==
    Replay([ssa |-> << >>, frontier |-> EmptyMap], operators, 1).ssa

\* A backward pass over the net without its first operators is under way,
\* and the slice has been played.
PartialPass ==
    /\ call.fn = "AddGradientOperators"
    /\ call.result[1] = "running"
    /\ call.args[1] > 0
    /\ pc \in { "generate", "accumulate", "done", "failed" }
    /\ error.kind # "TypeError"

\* C34 as stated: for every input of an operator of the slice, the input
\* usages the accumulation check consults list as many consumers as read
\* that version of the blob in the whole net, the skipped operators
\* included.
C34_UsagesOfWholeNet ==
    PartialPass =>
        \A i \in DOMAIN ssa : \A n \in DOMAIN ssa[i].in_versions :
            Len(Usage(<< n, ssa[i].in_versions[n] >>)) =
                Len(ListGet(UsagesOfAll(net.op),
                            << n, HistoryOf(net.op)[call.args[1] + i]
                                      .in_versions[n] >>))

(* C34, amended: with skip = k > 0 the input usages the accumulation check *)
(* consults are the ones computed from the operators after the first k     *)
(* alone: the skipped operators are not played, and what they read is not  *)
(* counted.                                                                *)
C34_UsagesOfSlice ==
    PartialPass =>
        /\ input_usages =
               UsagesOfAll(SubSeq(net.op, call.args[1] + 1, Len(net.op)))
        /\ Len(ssa) = Len(net.op) - call.args[1]

\* A pass that skipped an operator reading A has come to its end; the one
\* operator it played that reads A is the only consumer of A it knows of,
\* and no accumulation was synthesized.
C34_Witness ==
    /\ PartialPass
    /\ pc = "done"
    /\ call.args[1] = 1
    /\ "A" \in Range(net.op[1].input)
    /\ Usage(<< "A", 0 >>) = << 2 >>
    /\ Len(ssa) = 2
    /\ accumulations = << >>
    /\ "A" \in DOMAIN all_input_to_grad_out

-----------------------------------------------------------------------------
(* C35 *)

\* Step i would hold nets and substeps if the call went through: AddNet on
\* a step with substeps, or AddSubstep of a step that is not empty on a
\* step with nets.
WouldMix(c) ==
    \/ c.fn = "AddNet" /\ HasSubsteps(steps[c.args[1]])
    \/ /\ c.fn = "AddSubstep"
       /\ HasNets(steps[c.args[1]])
       /\ HasNets(steps[c.args[2]]) \/ HasSubsteps(steps[c.args[2]])

(* C35: no step has both a non-empty network list and a non-empty substep  *)
(* list, and the call that would make it so (AddNet on a step with         *)
(* substeps, AddSubstep on a step with nets) fails and leaves every step   *)
(* as it is.                                                               *)
C35_NetsOrSubsteps ==
    [][ /\ \A i \in DOMAIN steps :
              /\ ~(HasNets(steps[i]) /\ HasSubsteps(steps[i]))
              /\ ~(HasNets(steps'[i]) /\ HasSubsteps(steps'[i]))
        /\ (step_calls' = step_calls + 1 /\ WouldMix(call')) =>
              /\ call'.result[1] = "raised"
              /\ steps' = steps ]_vars

\* The second call on the steps was AddNet on a step that is not used and
\* was given a substep by the first call; it has failed.
C35_Witness ==
    /\ call.fn = "AddNet"
    /\ call.result[1] = "raised"
    /\ ~steps[call.args[1]].is_used
    /\ HasSubsteps(steps[call.args[1]])
    /\ ~HasNets(steps[call.args[1]])
    /\ step_calls = 2

\* ---------------------------------------------------------------------
\* C36. The contributions of one versioned blob that have a producing
\* operator are summed only when they carry one gradient name: an
\* accumulation step that meets two produced contributions with different
\* names for a versioned blob it is due to accumulate ends the pass with
\* an error, adds no operator, records no accumulation and leaves the
\* gradient map alone; and every accumulation a step does record is over
\* contributions whose produced names agree.  The name of a sparse
\* contribution is the name of its values, produced when an operator
\* produces the values.
HasProducer(g) ==
    IF g.type = "GradGenMeta" THEN g.grad_op # 0 ELSE g.grad_op_values # 0
GradientName(g) ==
    IF g.type = "GradGenMeta" THEN g.gradient[1] ELSE g.gradient[2]
ProducedNames(gens) ==
    { GradientName(gens[k]) : k \in { j \in DOMAIN gens : HasProducer(gens[j]) } }
DueKeys(i) ==
    { key \in { << n, ssa[i].in_versions[n] >> : n \in Range(ssa[i].op.input) } :
        Len(Usage(key)) > 1 /\ Usage(key)[1] = i }
NamesDiffer(i) ==
    \E key \in DueKeys(i) : Cardinality(ProducedNames(Generators(key))) > 1
C36_SameNameOrFail ==
    [][pc = "accumulate" =>
        /\ NamesDiffer(forward_op_idx) =>
              /\ pc' = "failed"
              /\ error' # NoError
              /\ accumulations' = accumulations
              /\ Len(all_gradient_ops') = Len(all_gradient_ops)
              /\ all_input_to_grad' = all_input_to_grad
        /\ \A i \in DOMAIN accumulations' \ DOMAIN accumulations :
              Cardinality(ProducedNames(accumulations'[i].generators)) <= 1]_vars
\* The pass has failed on two dense or two sparse contributions of one
\* versioned blob, both produced, with different names.
C36_Witness ==
    /\ pc = "failed"
    /\ error.kind = "GradNamesDiffer"
    /\ \E key \in DueKeys(forward_op_idx) :
          /\ Len(Generators(key)) = 2
          /\ \A k \in 1 .. 2 : HasProducer(Generators(key)[k])
          /\ Cardinality(ProducedNames(Generators(key))) = 2

\* ---------------------------------------------------------------------
\* C37. In one backward pass a versioned blob is accumulated at most
\* once and an output of a gradient operator is renamed at most once:
\* after every step, the outputs that the recorded accumulations took
\* from gradient operators carry the name "_<original>_autosplit_<k>",
\* where <original> is the name the operator was generated with and k
\* counts from 0 the contributions of the accumulation that an operator
\* produces (indices and values of sparse contributions counted apart),
\* these names are pairwise distinct within one accumulation, and a step
\* changes the name of no other output of an operator generated before.
Rank(gens, k, field) == Cardinality({ j \in 1 .. k - 1 : gens[j][field] # 0 })
RenamedPart(a, field, idx, part) ==
    { [op |-> a.generators[k][field],
       idx |-> a.generators[k][idx] + 1,
       name |-> AutosplitName(a.generators[k].gradient[part],
                              Rank(a.generators, k, field)),
       from |-> << k, field >>] :
      k \in { j \in DOMAIN a.generators : a.generators[j][field] # 0 } }
RenamedOutputs(a) ==
    IF AllOfType(a.generators, "GradGenMeta")
    THEN RenamedPart(a, "grad_op", "idx", 1)
    ELSE RenamedPart(a, "grad_op_indices", "idx_indices", 1)
         \cup RenamedPart(a, "grad_op_values", "idx_values", 2)
Renames(accs) == UNION { RenamedOutputs(accs[i]) : i \in DOMAIN accs }
AccumulatedOnce ==
    \A i, j \in DOMAIN accumulations :
        Key(accumulations[i]) = Key(accumulations[j]) => i = j
RenamedOnce ==
    \A r \in Renames(accumulations) :
        all_gradient_ops[r.op].output[r.idx] = r.name
RenamedApart ==
    \A i \in DOMAIN accumulations :
        \A r1, r2 \in RenamedOutputs(accumulations[i]) :
            r1.name = r2.name => r1 = r2
OthersKeepName ==
    \A p \in DOMAIN all_gradient_ops \cap DOMAIN all_gradient_ops' :
        \A j \in DOMAIN all_gradient_ops[p].output :
            \/ all_gradient_ops'[p].output[j] = all_gradient_ops[p].output[j]
            \/ \E r \in Renames(accumulations') \ Renames(accumulations) :
                   r.op = p /\ r.idx = j
            \/ /\ pc' = "failed"
               /\ \E k \in 0 .. Len(all_gradient_ops) :
                      all_gradient_ops'[p].output[j] =
                          AutosplitName(all_gradient_ops[p].output[j], k)
C37_RenamedOnceInOrder ==
    [][AccumulatedOnce' /\ RenamedOnce' /\ RenamedApart' /\ OthersKeepName]_vars
\* A finished pass with an accumulation of three contributions that
\* operators produce, renamed with the counters 0, 1 and 2.
C37_Witness ==
    /\ pc = "done"
    /\ \E i \in DOMAIN accumulations :
          /\ Cardinality(RenamedOutputs(accumulations[i])) >= 3
          /\ \A c \in 0 .. 2 :
                \E r \in RenamedOutputs(accumulations[i]) :
                    /\ all_gradient_ops[r.op].output[r.idx] = r.name
                    /\ r.name = AutosplitName(
                           accumulations[i].generators[r.from[1]].gradient[1], c)

\* ---------------------------------------------------------------------
\* C38. After every step of a backward pass every blob with a gradient
\* in the running gradient map has an entry in the gradient frontier,
\* and no generation step fails for want of such an entry when it
\* compares the version of an output whose gradient a gradient operator
\* reads.
FrontierCoversMap ==
    \A b \in DOMAIN all_input_to_grad :
        all_input_to_grad[b] # None => b \in DOMAIN gradient_frontier
C38_FrontierSetForGradients ==
    [][/\ FrontierCoversMap'
       /\ pc = "generate" => error'.kind # "KeyError"]_vars
\* A generation step has passed the check of a gradient operator that
\* reads the gradient of an output that is no target, and has given a
\* gradient to an input that is no target either.
C38_Witness ==
    /\ pc = "accumulate"
    /\ \E k \in DOMAIN all_gradient_ops :
          /\ op_origin[k] = Origin("grad", forward_op_idx)
          /\ \E o \in Range(ssa[forward_op_idx].op.output) :
                /\ \A t \in DOMAIN ys : ys[t][1] # o
                /\ o \in DOMAIN gradient_frontier
                /\ o \o "_grad" \in Range(all_gradient_ops[k].input)
    /\ \E b \in Range(ssa[forward_op_idx].op.input) :
          /\ \A t \in DOMAIN ys : ys[t][1] # b
          /\ MapGet(all_input_to_grad, b) # None
          /\ b \in DOMAIN gradient_frontier

\* ---------------------------------------------------------------------
\* C39. Every name in the gradient map that a successful GetBackwardPass
\* returns (the name of a dense gradient, the indices and the values of
\* a sparse one) is a gradient supplied with a target or an output of an
\* operator of the returned list, under the names the outputs have
\* after the renaming of the accumulations.
SuppliedGradients ==
    UNION { Range(ys[t][2]) : t \in DOMAIN ys }
ReturnedOutputs ==
    UNION { Range(all_gradient_ops[k].output) : k \in DOMAIN all_gradient_ops }
ReturnedNames ==
    UNION { Range(all_input_to_grad_out[b]) : b \in DOMAIN all_input_to_grad_out }
C39_ReturnedGradientsProduced ==
    pc = "done" => ReturnedNames \subseteq SuppliedGradients \cup ReturnedOutputs

\* The same with one more origin for the indices of a sparse gradient:
\* a blob that a forward operator reads, which the gradient rule of the
\* operator names as the indices.
ForwardInputs == UNION { Range(ssa[i].op.input) : i \in DOMAIN ssa }
ReturnedIndices ==
    { all_input_to_grad_out[b][1] :
        b \in { n \in DOMAIN all_input_to_grad_out :
                  IsSlice(all_input_to_grad_out[n]) } }
C39_ReturnedGradientsProducedOrRead ==
    pc = "done" =>
        /\ ReturnedNames \subseteq
               SuppliedGradients \cup ReturnedOutputs \cup ForwardInputs
        /\ ReturnedNames \ ReturnedIndices \subseteq
               SuppliedGradients \cup ReturnedOutputs
\* A finished pass whose map has the sum of an accumulation under the
\* name the sum operator writes, and a sparse gradient whose indices are
\* a blob read by a forward operator and whose values an operator of
\* the list writes.
C39_Witness ==
    /\ pc = "done"
    /\ \E i \in DOMAIN accumulations :
          /\ MapGet(all_input_to_grad, accumulations[i].name) = accumulations[i].g
          /\ Range(accumulations[i].g) \subseteq ReturnedOutputs
    /\ \E b \in DOMAIN all_input_to_grad_out :
          /\ IsSlice(all_input_to_grad_out[b])
          /\ all_input_to_grad_out[b][1] \in ForwardInputs \ ReturnedOutputs
          /\ all_input_to_grad_out[b][1] \notin SuppliedGradients
          /\ all_input_to_grad_out[b][2] \in ReturnedOutputs

====
